---- MODULE Spec2Model ----
(***************************************************************************)
(* A state-machine model of the Euresys eGrabber camera adapter            *)
(* (src/src/euresys.egrabber.cpp): the EGCamera object, the eecam_* entry  *)
(* points that wrap it, and the device registers it reads and writes.      *)
(*                                                                         *)
(* Lock-guarded operations run in three steps: Begin* (the call is made    *)
(* and lock_ acquired), Body* (the whole method body, then the             *)
(* scoped_lock's release and the wrapper's catch), Return (the caller has  *)
(* consumed the status).  The vendor SDK may throw from any call: the      *)
(* body's input `fault` names the SDK call of this invocation that throws  *)
(* (0: none).                                                              *)
(*                                                                         *)
(* Exposure times are counted in units of 2^-30 microseconds.  Small       *)
(* multiples of that unit are exact in a float and so are their            *)
(* differences; one unit (9.31e-10) is below the code's comparison epsilon *)
(* 1e-9 and two units (1.86e-9) are above it, so fabsf(a - b) > 1e-9 is    *)
(* exactly "a and b are more than one unit apart".                         *)
(*                                                                         *)
(* Seven specifications share the state:                                   *)
(*   Spec        one thread calling set, get and get_meta;                 *)
(*   SpecStream  a control thread and a get_frame consumer on a streaming  *)
(*               camera; get_frame runs without lock_ and in steps, so     *)
(*               that its accesses interleave with the locked bodies;      *)
(*   SpecDriver  one thread driving the EGDriver (describe, open, close,   *)
(*               shutdown) and every camera entry point;                   *)
(*   SpecLock    two threads calling the seven lock-guarded entry points;  *)
(*   SpecCaps    one thread opening, configuring and closing cameras that  *)
(*               differ in exposure unit, pixel formats and range coupling;*)
(*   SpecEcho    one thread passing the record of get back to set, on      *)
(*               cameras found in any register state;                      *)
(*   SpecShape   one caller that sets a shape, starts and reads frames,    *)
(*               remembering the shape it asked for.                       *)
(***************************************************************************)
EXTENDS Integers, Sequences, FiniteSets, TLC

VARIABLES
    dev,        \* the camera's GenICam registers (RemoteModule features)
    lks,        \* EGCamera::last_known_settings_
    lkc,        \* EGCamera::last_known_capabilities_
    frame_id_,  \* EGCamera::frame_id_
    lock_,      \* EGCamera::lock_ : "none" or the thread holding it
    grab,       \* EGCamera::grabber_ : stream state and buffer pool
    pc,         \* per thread: where it is in its current call
    call,       \* per thread: the call in progress (operation, arguments)
    ret,        \* per thread: what the last call returned and did
    workload,   \* which operations and which inputs this run's callers use
    driver,     \* the EGDriver: alive or shut down, its camera opened or not
    configured  \* the shape the caller holds in its settings after a
                \* successful set, the TriggerMode that set left the device
                \* with, and whether the caller has started since

vars == <<dev, lks, lkc, frame_id_, lock_, grab, pc, call, ret, workload,
          driver, configured>>

----------------------------------------------------------------------------
(* Status codes, enums, lookup tables *)

Device_Ok == "Device_Ok"
Device_Err == "Device_Err"

NBUFFERS == 16

\* fabsf(target_us - last_value_us) > 1e-9, in units of 2^-30 us: the
\* largest number of units that is not above 1e-9
Epsilon == 1

Signal_Input == 0
Signal_Output == 1

TriggerEdge_Rising == 0
TriggerEdge_Falling == 1
TriggerEdge_AnyEdge == 2
TriggerEdge_Unknown == 6

Trig_Line0 == 0
Trig_Software == 1
Trig_Unknown == 2

\* enum SampleType, in declaration order; SampleTypeCount follows the last
\* sample type and SampleType_Unknown follows SampleTypeCount.
SampleTypeIndex(t) ==
    CASE t = "u8" -> 0 [] t = "u16" -> 1 [] t = "i8" -> 2 [] t = "i16" -> 3
      [] t = "f32" -> 4 [] t = "u10" -> 5 [] t = "u12" -> 6 [] t = "u14" -> 7
      [] t = "Unknown" -> 9

SampleTypeCount == 8

px_type_table_ ==
    [Mono8 |-> "u8", Mono10 |-> "u10", Mono12 |-> "u12", Mono14 |-> "u14",
     Mono16 |-> "u16"]

px_type_inv_table_ ==
    [u8 |-> "Mono8", u10 |-> "Mono10", u12 |-> "Mono12", u14 |-> "Mono14",
     u16 |-> "Mono16"]

trig_edge_table_ ==
    [RisingEdge |-> 0, FallingEdge |-> 1, AnyEdge |-> 2, LevelHigh |-> 3,
     LevelLow |-> 4]

trig_src_table_ == [Line0 |-> 0, Software |-> 1]

at_or(table, key, dflt) ==
    IF key \in DOMAIN table THEN table[key] ELSE dflt

Abs(x) == IF x < 0 THEN -x ELSE x

clamp(val, low, high) ==
    IF val < low THEN low ELSE IF val > high THEN high ELSE val

\* What the two padding bytes of a Trigger, between line and kind, may hold:
\* no assignment of a field defines them
PadBytes == {0, 255}

\* memcmp of two Trigger records over sizeof(Trigger): every field, kind
\* included, and the padding bytes
is_equal(lhs, rhs) ==
    /\ lhs.enable = rhs.enable
    /\ lhs.line = rhs.line
    /\ lhs.pad = rhs.pad
    /\ lhs.kind = rhs.kind
    /\ lhs.edge = rhs.edge

----------------------------------------------------------------------------
(* The device: registers and the ranges it reports *)

\* ExposureTimeMinReg/MaxReg, OffsetX/YMinReg/MaxReg, Width/HeightMinReg/MaxReg
\* as the device d reports them.  A device with coupled ranges lets the
\* region of interest start no further than the sensor leaves room for the
\* width and height in force.
DeviceRanges(d) ==
    [ExposureTime |-> [low |-> 2, high |-> 4],
     OffsetX |-> [low |-> 0, high |-> IF d.Coupled THEN 2 - d.Width ELSE 1],
     OffsetY |-> [low |-> 0, high |-> IF d.Coupled THEN 2 - d.Height ELSE 1],
     Width |-> [low |-> 1, high |-> 2],
     Height |-> [low |-> 1, high |-> 2]]

\* TriggerMode is an enumeration: getInteger reads Off as 0 and On as 1
ModeInteger(mode) == IF mode = "On" THEN 1 ELSE 0

Threads == {"ctl", "aux", "consumer"}

NoCall == [op |-> "none"]
NoRet == [op |-> "none"]

----------------------------------------------------------------------------
(* The execution of one method body.  A context c carries the device and   *)
(* the cache as the body has left them so far, the SDK calls issued (log), *)
(* whether an exception is in flight (ok, err), the value a helper returns *)
(* (val) and the caller's CameraProperties record (arg), which             *)
(* maybe_set_trigger writes through its Trigger& parameter.                *)

Ctx(fault, arg) ==
    [dev |-> dev, lks |-> lks, log |-> <<>>, ok |-> TRUE, err |-> "none",
     fault |-> fault, val |-> 0, arg |-> arg]

\* EXPECT(e, ...) / CHECK(e): throws std::runtime_error when e is false
Throw(c, why) == IF c.ok THEN [c EXCEPT !.ok = FALSE, !.err = why] ELSE c

\* One SDK call that changes the device: grabber_.setFloat/setInteger/
\* setString<RemoteModule>(f, v).  It throws when it is the call `fault`
\* names, and then leaves the register alone.  The log keeps every call
\* issued, with whether it returned (ok).
HwWrite(c, f, v) ==
    IF ~c.ok THEN c
    ELSE IF Len(c.log) + 1 = c.fault
         THEN [c EXCEPT !.log = Append(@, [f |-> f, v |-> v, ok |-> FALSE]),
                        !.ok = FALSE, !.err = "sdk"]
         ELSE [c EXCEPT !.log = Append(@, [f |-> f, v |-> v, ok |-> TRUE]),
                        !.dev = [@ EXCEPT ![f] = v]]

\* An SDK call that is a command or a stream operation (reallocBuffers,
\* start, stop, cancelPop, execute): logged, may throw, no register changes.
HwCall(c, f, v) ==
    IF ~c.ok THEN c
    ELSE IF Len(c.log) + 1 = c.fault
         THEN [c EXCEPT !.log = Append(@, [f |-> f, v |-> v, ok |-> FALSE]),
                        !.ok = FALSE, !.err = "sdk"]
         ELSE [c EXCEPT !.log = Append(@, [f |-> f, v |-> v, ok |-> TRUE])]

\* The mutant of maybe_set_exposure_time_us_: writes without comparing.
maybe_set_exposure_always(c, target_us, last_value_us) ==
    LET t == clamp(target_us, lkc.exposure_time_us.low,
                   lkc.exposure_time_us.high)
    IN  [HwWrite(c, "ExposureTime", t) EXCEPT !.val = t]

maybe_set_exposure_time_us_(c, target_us, last_value_us) ==
    IF Abs(target_us - last_value_us) > Epsilon
    THEN LET t == clamp(target_us, lkc.exposure_time_us.low,
                        lkc.exposure_time_us.high)
         IN  [HwWrite(c, "ExposureTime", t) EXCEPT !.val = t]
    ELSE [c EXCEPT !.val = last_value_us]

\* The mutant of maybe_set_binning: the target is applied as a factor on the
\* binning in force, every time.
maybe_set_binning_factor(c, target, last_value) ==
    LET t == clamp(target * last_value, lkc.binning.low, lkc.binning.high)
    IN  IF lkc.binning.writable
        THEN [HwWrite(HwWrite(c, "BinningHorizontal", t),
                      "BinningVertical", t) EXCEPT !.val = t]
        ELSE [c EXCEPT !.val = t]

maybe_set_binning(c, target, last_value) ==
    IF target # last_value
    THEN LET t == clamp(target, lkc.binning.low, lkc.binning.high)
         IN  IF lkc.binning.writable
             THEN [HwWrite(HwWrite(c, "BinningHorizontal", t),
                           "BinningVertical", t) EXCEPT !.val = t]
             ELSE [c EXCEPT !.val = t]
    ELSE [c EXCEPT !.val = last_value]

\* The mutant of maybe_set_px_type: a type without a format name is written
\* as Mono8 and accepted.
maybe_set_px_type_lenient(c, target, last_known) ==
    IF target # last_known
    THEN [HwWrite(c, "PixelFormat", at_or(px_type_inv_table_, target, "Mono8"))
             EXCEPT !.val = target]
    ELSE [c EXCEPT !.val = last_known]

maybe_set_px_type(c, target, last_known) ==
    IF ~(SampleTypeIndex(target) < SampleTypeCount)
    THEN Throw(c, "validation")
    ELSE IF target # last_known
         THEN IF target \in DOMAIN px_type_inv_table_
              THEN [HwWrite(c, "PixelFormat", px_type_inv_table_[target])
                       EXCEPT !.val = target]
              ELSE Throw(c, "validation")  \* unordered_map::at throws
         ELSE [c EXCEPT !.val = last_known]

maybe_set_offset(c, target, last) ==
    LET tx == clamp(target.x, lkc.offset.x.low, lkc.offset.x.high)
        ty == clamp(target.y, lkc.offset.y.low, lkc.offset.y.high)
        cx == IF target.x # last.x THEN HwWrite(c, "OffsetX", tx) ELSE c
        lx == IF target.x # last.x THEN tx ELSE last.x
        cy == IF target.y # last.y THEN HwWrite(cx, "OffsetY", ty) ELSE cx
        ly == IF target.y # last.y THEN ty ELSE last.y
    IN  [cy EXCEPT !.val = [x |-> lx, y |-> ly]]

maybe_set_shape(c, target, last) ==
    LET tx == clamp(target.x, lkc.shape.x.low, lkc.shape.x.high)
        ty == clamp(target.y, lkc.shape.y.low, lkc.shape.y.high)
        cx == IF target.x # last.x THEN HwWrite(c, "Width", tx) ELSE c
        lx == IF target.x # last.x THEN tx ELSE last.x
        cy == IF target.y # last.y THEN HwWrite(cx, "Height", ty) ELSE cx
        ly == IF target.y # last.y THEN ty ELSE last.y
    IN  [cy EXCEPT !.val = [x |-> lx, y |-> ly]]

TriggerSources == <<"Line0", "Software">>
TriggerModes == <<"Off", "On">>
TriggerActivations == <<"RisingEdge", "FallingEdge">>

\* The mutant of maybe_set_trigger: writes TriggerSource before validating.
maybe_set_trigger_write_first(c, target, last) ==
    IF is_equal(target, last) THEN c
    ELSE LET c1 == HwWrite(c, "TriggerSource",
                           IF target.line < 2
                           THEN TriggerSources[target.line + 1]
                           ELSE "Line0")
         IN  IF ~(target.line < 2) \/ ~(target.edge < 2)
                \/ ~(target.enable < 2)
             THEN Throw(c1, "validation")
             ELSE HwWrite(
                    HwWrite([c1 EXCEPT
                        !.arg.input_triggers.frame_start.kind = Signal_Input],
                      "TriggerMode", TriggerModes[target.enable + 1]),
                    "TriggerActivation", TriggerActivations[target.edge + 1])

\* The mutant of maybe_set_trigger: TriggerMode is written before
\* TriggerSource.
maybe_set_trigger_mode_first(c, target, last) ==
    IF is_equal(target, last) THEN c
    ELSE IF ~(target.line < 2) \/ ~(target.edge < 2) \/ ~(target.enable < 2)
         THEN Throw(c, "validation")
         ELSE HwWrite(
                HwWrite(
                  HwWrite([c EXCEPT
                      !.arg.input_triggers.frame_start.kind = Signal_Input],
                    "TriggerMode", TriggerModes[target.enable + 1]),
                  "TriggerSource", TriggerSources[target.line + 1]),
                "TriggerActivation", TriggerActivations[target.edge + 1])

maybe_set_trigger(c, target, last) ==
    IF is_equal(target, last) THEN c
    ELSE IF ~(target.line < 2) \/ ~(target.edge < 2) \/ ~(target.enable < 2)
         THEN Throw(c, "validation")
         ELSE HwWrite(
                HwWrite(
                  HwWrite([c EXCEPT
                      !.arg.input_triggers.frame_start.kind = Signal_Input],
                    "TriggerSource", TriggerSources[target.line + 1]),
                  "TriggerMode", TriggerModes[target.enable + 1]),
                "TriggerActivation", TriggerActivations[target.edge + 1])

\* set assigns a helper's return value to the cache only when the helper
\* returned (no exception in flight).
Assign(c, r, field) ==
    IF ~c.ok THEN c
    ELSE IF r.ok THEN [r EXCEPT !.lks[field] = r.val] ELSE r

\* The mutant of set: the shape is written before the offset.
set_shape_first(c0) ==
    LET P  == c0.arg
        c1 == Assign(c0, maybe_set_exposure_time_us_(
                           c0, P.exposure_time_us, c0.lks.exposure_time_us),
                     "exposure_time_us")
        c2 == Assign(c1, maybe_set_binning(c1, P.binning, c1.lks.binning),
                     "binning")
        c3 == Assign(c2, maybe_set_px_type(c2, P.pixel_type,
                                           c2.lks.pixel_type),
                     "pixel_type")
        c4 == Assign(c3, maybe_set_shape(c3, P.shape, c3.lks.shape), "shape")
        c5 == Assign(c4, maybe_set_offset(c4, P.offset, c4.lks.offset),
                     "offset")
        c6 == IF c5.ok
              THEN maybe_set_trigger(c5, P.input_triggers.frame_start,
                                     c5.lks.input_triggers.frame_start)
              ELSE c5
    IN  HwCall(c6, "reallocBuffers", NBUFFERS)

\* EGCamera::set, from the first helper to reallocBuffers
set(c0) ==
    LET P  == c0.arg
        c1 == Assign(c0, maybe_set_exposure_time_us_(
                           c0, P.exposure_time_us, c0.lks.exposure_time_us),
                     "exposure_time_us")
        c2 == Assign(c1, maybe_set_binning(c1, P.binning, c1.lks.binning),
                     "binning")
        c3 == Assign(c2, maybe_set_px_type(c2, P.pixel_type,
                                           c2.lks.pixel_type),
                     "pixel_type")
        c4 == Assign(c3, maybe_set_offset(c3, P.offset, c3.lks.offset),
                     "offset")
        c5 == Assign(c4, maybe_set_shape(c4, P.shape, c4.lks.shape), "shape")
        c6 == IF c5.ok
              THEN maybe_set_trigger(c5, P.input_triggers.frame_start,
                                     c5.lks.input_triggers.frame_start)
              ELSE c5
    IN  HwCall(c6, "reallocBuffers", NBUFFERS)

\* The record EGCamera::get builds from the device's registers, the
\* padding of its trigger record holding zero bytes
GetProps(d) ==
    LET dflt == [enable |-> 0, line |-> 0, pad |-> 0, kind |-> Signal_Input,
                 edge |-> TriggerEdge_Rising]
        src == at_or(trig_src_table_, d.TriggerSource, Trig_Unknown)
    IN  [exposure_time_us |-> d.ExposureTime,
         binning |-> d.BinningHorizontal,
         pixel_type |-> at_or(px_type_table_, d.PixelFormat, "Unknown"),
         offset |-> [x |-> d.OffsetX, y |-> d.OffsetY],
         shape |-> [x |-> d.Width, y |-> d.Height],
         input_triggers |-> [frame_start |->
            IF src \in {Trig_Line0, Trig_Software}
            THEN [enable |-> ModeInteger(d.TriggerMode),
                  line |-> src,
                  pad |-> 0,
                  kind |-> Signal_Input,
                  edge |-> at_or(trig_edge_table_, d.TriggerActivation,
                                 TriggerEdge_Unknown)]
            ELSE dflt]]

\* The record P with p in the padding bytes of its trigger record
Padded(P, p) == [P EXCEPT !.input_triggers.frame_start.pad = p]

\* EGCamera::get.  fault 1: a read of the first initializer throws, before
\* *properties is assigned; fault 2: a trigger read throws, after
\* *properties holds the scalars and the default trigger.  The braced
\* initializers leave p, whatever the build makes of it, in the padding of
\* the trigger record; the copy into last_known_settings_ takes it along.
get(c, p) ==
    LET full == Padded(GetProps(c.dev), p)
        dflt == [enable |-> 0, line |-> 0, pad |-> p, kind |-> Signal_Input,
                 edge |-> TriggerEdge_Rising]
    IN  IF c.fault = 1 THEN Throw(c, "sdk")
        ELSE IF c.fault = 2
             THEN [Throw(c, "sdk") EXCEPT
                      !.arg = [full EXCEPT !.input_triggers.frame_start = dflt]]
             ELSE [c EXCEPT !.arg = full, !.lks = full]

\* The record EGCamera::get_meta builds: the query_*_capabilities_ helpers
MetaOf(d) ==
    [exposure_time_us |-> [writable |-> TRUE,
                           low |-> DeviceRanges(d).ExposureTime.low,
                           high |-> DeviceRanges(d).ExposureTime.high],
     binning |-> [writable |-> d.BinningWritable, low |-> 1, high |-> 4],
     offset |-> [x |-> [writable |-> TRUE,
                        low |-> DeviceRanges(d).OffsetX.low,
                        high |-> DeviceRanges(d).OffsetX.high],
                 y |-> [writable |-> TRUE,
                        low |-> DeviceRanges(d).OffsetY.low,
                        high |-> DeviceRanges(d).OffsetY.high]],
     shape |-> [x |-> [writable |-> TRUE,
                       low |-> DeviceRanges(d).Width.low,
                       high |-> DeviceRanges(d).Width.high],
                y |-> [writable |-> TRUE,
                       low |-> DeviceRanges(d).Height.low,
                       high |-> DeviceRanges(d).Height.high]],
     supported_pixel_types |->
        {SampleTypeIndex(at_or(px_type_table_, v, "Unknown")) :
            v \in d.PixelFormats},
     triggers |-> [frame_start |-> [input |-> 1, output |-> 0]],
     digital_lines |-> [line_count |-> 2, names |-> <<"Line0", "Software">>]]

\* A CameraPropertyMetadata record the caller has zeroed
NoMeta ==
    LET none == [writable |-> FALSE, low |-> 0, high |-> 0]
    IN  [exposure_time_us |-> none,
         binning |-> none,
         offset |-> [x |-> none, y |-> none],
         shape |-> [x |-> none, y |-> none],
         supported_pixel_types |-> {},
         triggers |-> [frame_start |-> [input |-> 0, output |-> 0]],
         digital_lines |-> [line_count |-> 0, names |-> <<>>]]

\* The caller's record m after the first n of get_meta's helpers have
\* assigned their part: exposure, binning, offset, shape, and then
\* supported_pixel_types = 0, which query_pixel_type_capabilities_ assigns
\* before it reads the list of formats
MetaAfter(m, d, n) ==
    LET full == MetaOf(d)
    IN  [exposure_time_us |->
            IF n >= 1 THEN full.exposure_time_us ELSE m.exposure_time_us,
         binning |-> IF n >= 2 THEN full.binning ELSE m.binning,
         offset |-> IF n >= 3 THEN full.offset ELSE m.offset,
         shape |-> IF n >= 4 THEN full.shape ELSE m.shape,
         supported_pixel_types |->
            IF n >= 4 THEN {} ELSE m.supported_pixel_types,
         triggers |-> m.triggers,
         digital_lines |-> m.digital_lines]

\* The mutant of get_meta: the exposure unit is not looked at.
get_meta_any_unit(c) ==
    IF c.fault = 1 THEN Throw(c, "sdk")
    ELSE IF c.fault \in 2 .. 5
         THEN [Throw(c, "sdk") EXCEPT
                  !.arg = MetaAfter(c.arg, c.dev, c.fault - 1)]
         ELSE [c EXCEPT !.arg = MetaOf(c.dev)]

\* EGCamera::get_meta.  fault 1: a read of the exposure query throws (the
\* unit, the writable flag, the two limits), before anything is assigned;
\* fault 2: the read of the binning query; fault 3: a read of the offset
\* query; fault 4: a read of the shape query; fault 5: the read of the
\* pixel-format list.  Each helper assigns its part of *meta once its reads
\* have returned, so a later fault leaves the earlier parts written.  The
\* exposure unit must be us.
get_meta(c) ==
    IF c.fault = 1 THEN Throw(c, "sdk")
    ELSE IF c.dev.ExposureTimeUnit # "us" THEN Throw(c, "validation")
    ELSE IF c.fault \in 2 .. 5
         THEN [Throw(c, "sdk") EXCEPT
                  !.arg = MetaAfter(c.arg, c.dev, c.fault - 1)]
         ELSE [c EXCEPT !.arg = MetaOf(c.dev)]

----------------------------------------------------------------------------
(* The grabber's stream: running or not, the frames delivered and not yet  *)
(* popped, whether a cancelPop is pending, the frames delivered so far,     *)
(* the buffers popped and not yet pushed back (held), and how many of     *)
(* those were revoked by a reallocation while they were held (stale)       *)

InitGrab ==
    [running |-> FALSE, queue |-> <<>>, cancel |-> FALSE, pulse |-> FALSE,
     delivered |-> 0, held |-> 0, stale |-> 0]

\* The mutant of PushBack: the buffer is kept.
PushBackNever(g) == g

\* ~ScopedBuffer: the popped buffer goes back to the pool
PushBack(g) ==
    [g EXCEPT !.held = @ - 1, !.stale = IF @ > 0 THEN @ - 1 ELSE @]

\* The mutant of Realloc: a buffer that is held is not revoked.
ReallocSparingHeld(g) == [g EXCEPT !.queue = <<>>]

\* grabber_.reallocBuffers(NBUFFERS): the old buffers, filled, held or
\* free, are revoked and NBUFFERS new ones announced
Realloc(g) == [g EXCEPT !.queue = <<>>, !.stale = g.held]

----------------------------------------------------------------------------
(* Initial states: the adapter as its constructor leaves it *)

\* The camera at power-on, TriggerMode forced Off by the constructor
PowerOn(writable) ==
    [ExposureTime |-> 2, ExposureTimeUnit |-> "us",
     BinningHorizontal |-> 1, BinningVertical |-> 1,
     BinningWritable |-> writable,
     PixelFormat |-> "Mono8", PixelFormats |-> {"Mono8", "Mono16"},
     OffsetX |-> 0, OffsetY |-> 0, Width |-> 2, Height |-> 2,
     TriggerSource |-> "Line0", TriggerMode |-> "Off",
     TriggerActivation |-> "RisingEdge", Coupled |-> FALSE]

\* The caller has no set behind it that succeeded
Unconfigured == [set |-> FALSE, started |-> FALSE]

Constructed(writable) ==
    /\ dev = PowerOn(writable)
    /\ \E p \in PadBytes : lks = Padded(GetProps(dev), p)
    /\ lkc = MetaOf(dev)
    /\ frame_id_ = 0
    /\ lock_ = "none"
    /\ grab = InitGrab
    /\ pc = [t \in Threads |-> "idle"]
    /\ call = [t \in Threads |-> NoCall]
    /\ ret = [t \in Threads |-> NoRet]
    /\ driver = [alive |-> TRUE, opened |-> TRUE]
    /\ configured = Unconfigured

\* The record a caller starts from: what get() returned after open
BaseProps == GetProps(PowerOn(TRUE))

ExposureTargets == {1, 3, 4, 6}
BinningTargets == {0, 2, 9}
PixelTargets == {"u8", "u16", "i8", "Unknown"}
OffsetTargets == {0, 1, 3}
ShapeTargets == {0, 2, 3}
TriggerTargets ==
    [enable : {0, 1, 2}, line : {0, 1, 2}, pad : PadBytes,
     kind : {Signal_Input, Signal_Output},
     edge : {TriggerEdge_Rising, TriggerEdge_Falling, TriggerEdge_AnyEdge}]

\* Records that change every group of fields in one call, and the record
\* that changes them back
MixedTargets ==
    {BaseProps,
     [exposure_time_us |-> 4, binning |-> 2, pixel_type |-> "u16",
      offset |-> [x |-> 1, y |-> 1], shape |-> [x |-> 1, y |-> 1],
      input_triggers |->
          [frame_start |->
              [enable |-> 1, line |-> Trig_Software, pad |-> 0,
               kind |-> Signal_Input, edge |-> TriggerEdge_Falling]]]}

\* The CameraProperties records a caller of each workload passes to set
PropsOf(w) ==
    CASE w = "scalar" ->
            {[BaseProps EXCEPT !.exposure_time_us = e, !.binning = b,
                               !.pixel_type = p] :
                e \in ExposureTargets, b \in BinningTargets,
                p \in PixelTargets}
      [] w = "roi" ->
            {[BaseProps EXCEPT !.offset = [x |-> ox, y |-> oy],
                               !.shape = [x |-> sx, y |-> sy]] :
                ox \in OffsetTargets, oy \in OffsetTargets,
                sx \in ShapeTargets, sy \in ShapeTargets}
      [] w = "trigger" ->
            {[BaseProps EXCEPT !.input_triggers.frame_start = tr] :
                tr \in TriggerTargets}
      [] w = "mixed" -> MixedTargets
      [] w = "shape" ->
            {[BaseProps EXCEPT !.shape = [x |-> s, y |-> s],
                               !.input_triggers.frame_start.enable = e] :
                s \in {1, 2}, e \in {0, 1}}
      [] w = "caps" ->
            {[BaseProps EXCEPT !.offset = [x |-> o, y |-> o],
                               !.shape = [x |-> s, y |-> s]] :
                o \in {0, 1}, s \in {1, 2}}
      [] w = "echo" ->
            {[BaseProps EXCEPT !.pixel_type = p,
                               !.input_triggers.frame_start.enable = e] :
                p \in {"u8", "u16"}, e \in {0, 1}}
      [] w \in {"stream", "query"} ->
            {[BaseProps EXCEPT !.input_triggers.frame_start =
                [enable |-> e, line |-> IF e = 1 THEN Trig_Software
                                                 ELSE Trig_Line0,
                 pad |-> 0, kind |-> Signal_Input,
                 edge |-> TriggerEdge_Rising]] :
                    e \in {0, 1}}
      [] w \in {"driver", "lock"} ->
            {[BaseProps EXCEPT !.input_triggers.frame_start =
                [enable |-> e, line |-> l, pad |-> 0, kind |-> Signal_Input,
                 edge |-> TriggerEdge_Rising]] :
                    e \in {0, 1}, l \in {Trig_Line0, Trig_Software}}

\* The camera operations the callers of each workload use
OpsOf(w) ==
    CASE w \in {"scalar", "roi", "trigger"} ->
            {"set", "get", "get_meta"}
      [] w = "mixed" -> {"set", "get"}
      [] w = "stream" ->
            {"set", "start", "stop", "execute_trigger", "get_frame"}
      [] w = "query" ->
            {"get", "get_meta", "get_shape", "start", "stop", "get_frame"}
      [] w = "driver" ->
            {"set", "get", "get_meta", "get_shape", "start", "stop",
             "execute_trigger", "get_frame"}
      [] w = "lock" ->
            {"set", "get", "get_meta", "get_shape", "start", "stop",
             "execute_trigger"}
      [] w = "caps" -> {"set", "get_meta"}
      [] w = "echo" -> {"set", "get"}
      [] w = "shape" -> {"set", "start", "get_frame"}

Init ==
    /\ workload \in {"scalar", "roi", "trigger", "mixed"}
    /\ \E writable \in BOOLEAN : Constructed(writable)

----------------------------------------------------------------------------
(* The eecam_* entry points.  Each returns Device_Ok when the method       *)
(* returned and Device_Err when it threw and the wrapper caught.           *)

\* The mutant of Status: the wrapper reports success whatever happened.
StatusAlwaysOk(c) == Device_Ok

Status(c) == IF c.ok THEN Device_Ok ELSE Device_Err

\* The SDK calls a body issues when none of them throws
NCalls(c) == Len(c.log)

\* The mutant of LockGuarded: get_frame takes lock_ too.
LockGuardedAll ==
    {"set", "get", "get_meta", "get_shape", "start", "stop",
     "execute_trigger", "get_frame"}

\* The operations whose body opens with std::scoped_lock lock(lock_)
LockGuarded ==
    {"set", "get", "get_meta", "get_shape", "start", "stop",
     "execute_trigger"}

\* The mutant of Acquire: the body is entered without waiting for lock_.
AcquireNoWait(t, op) ==
    IF op \in LockGuarded THEN lock_' = t ELSE lock_' = lock_

\* Entering a body: a lock-guarded one waits for lock_ and takes it
Acquire(t, op) ==
    IF op \in LockGuarded
    THEN lock_ = "none" /\ lock_' = t
    ELSE lock_' = lock_

\* The mutant of Release: lock_ is kept when the body is left.
ReleaseNever(t) == lock_' = lock_

\* Leaving a body, by return or by exception: the scoped_lock is destroyed
Release(t) == lock_' = IF lock_ = t THEN "none" ELSE lock_

Begin(t, op, arg) ==
    /\ pc[t] = "idle"
    /\ driver.opened /\ op \in OpsOf(workload)
    /\ Acquire(t, op)
    /\ pc' = [pc EXCEPT ![t] = "locked"]
    /\ call' = [call EXCEPT ![t] = [op |-> op, arg |-> arg]]
    /\ ret' = [ret EXCEPT ![t] = NoRet]
    /\ UNCHANGED <<dev, lks, lkc, frame_id_, grab, workload, configured,
                   driver>>

\* What every lock-guarded body ends with: the scoped_lock released, the
\* status handed to the caller
Finish(t, c) ==
    /\ Release(t)
    /\ pc' = [pc EXCEPT ![t] = "returned"]
    /\ ret' = [ret EXCEPT ![t] =
                 [op |-> call[t].op, arg |-> call[t].arg, out |-> c.arg,
                  status |-> Status(c), err |-> c.err, log |-> c.log,
                  fault |-> c.fault, again |-> "again" \in DOMAIN call[t]]]
    /\ call' = [call EXCEPT ![t] = NoCall]

BeginSet(t) ==
    \E P \in PropsOf(workload) : Begin(t, "set", P)

\* The caller of the shape workload keeps the shape it passed to a set that
\* returned Device_Ok, as the settings it will compare its frames with
Remember(c) ==
    IF workload # "shape" THEN configured
    ELSE IF c.ok
         THEN [set |-> TRUE, started |-> FALSE, shape |-> c.arg.shape,
               mode |-> c.dev.TriggerMode]
         ELSE Unconfigured

\* eecam_set: EGCamera::set under lock_
BodySet(t) ==
    /\ pc[t] = "locked" /\ call[t].op = "set"
    /\ \E fault \in 0 .. NCalls(set(Ctx(0, call[t].arg))) :
          LET c == set(Ctx(fault, call[t].arg))
          IN  /\ dev' = c.dev
              /\ lks' = c.lks
              /\ grab' = IF c.ok THEN Realloc(grab) ELSE grab
              /\ configured' = Remember(c)
              /\ Finish(t, c)
    /\ UNCHANGED <<lkc, frame_id_, workload, driver>>

\* The caller repeats a set that returned Device_Ok, passing the record the
\* first call left it with, before it does anything else
BeginSetAgain(t) ==
    /\ pc[t] = "returned"
    /\ ret[t].op = "set" /\ ret[t].status = Device_Ok
    /\ driver.opened /\ "set" \in OpsOf(workload)
    /\ Acquire(t, "set")
    /\ pc' = [pc EXCEPT ![t] = "locked"]
    /\ call' = [call EXCEPT ![t] =
                  [op |-> "set", arg |-> ret[t].out, again |-> TRUE]]
    /\ ret' = [ret EXCEPT ![t] = NoRet]
    /\ UNCHANGED <<dev, lks, lkc, frame_id_, grab, workload, configured,
                   driver>>

\* The caller passes the record a successful get has just filled in back
\* to set, unchanged, before it does anything else
BeginSetBack(t) ==
    /\ pc[t] = "returned"
    /\ ret[t].op = "get" /\ ret[t].status = Device_Ok
    /\ driver.opened /\ workload = "echo"
    /\ Acquire(t, "set")
    /\ pc' = [pc EXCEPT ![t] = "locked"]
    /\ call' = [call EXCEPT ![t] =
                  [op |-> "set", arg |-> ret[t].out, echo |-> TRUE]]
    /\ ret' = [ret EXCEPT ![t] = NoRet]
    /\ UNCHANGED <<dev, lks, lkc, frame_id_, grab, workload, configured,
                   driver>>

BeginGet(t) == Begin(t, "get", BaseProps)

\* eecam_get: EGCamera::get under lock_
BodyGet(t) ==
    /\ pc[t] = "locked" /\ call[t].op = "get"
    /\ \E fault \in 0 .. 2, p \in PadBytes :
          LET c == get(Ctx(fault, call[t].arg), p)
          IN  /\ lks' = c.lks
              /\ Finish(t, c)
    /\ UNCHANGED <<dev, lkc, frame_id_, grab, workload, configured, driver>>

BeginGetMeta(t) == Begin(t, "get_meta", NoMeta)

\* eecam_get_meta: EGCamera::get_meta under lock_
BodyGetMeta(t) ==
    /\ pc[t] = "locked" /\ call[t].op = "get_meta"
    /\ \E fault \in 0 .. 5 :
          LET c == get_meta(Ctx(fault, call[t].arg))
          IN  Finish(t, c)
    /\ UNCHANGED <<dev, lks, lkc, frame_id_, grab, workload, configured,
                   driver>>

\* The caller has read the status and the outputs
Return(t) ==
    /\ pc[t] = "returned"
    /\ pc' = [pc EXCEPT ![t] = "idle"]
    /\ ret' = [ret EXCEPT ![t] = NoRet]
    /\ UNCHANGED <<dev, lks, lkc, frame_id_, lock_, grab, call, workload,
                   configured, driver>>

SetCall == BeginSet("ctl")
SetBody == BodySet("ctl")
SetAgainCall == BeginSetAgain("ctl")
SetBackCall == BeginSetBack("ctl")
GetCall == BeginGet("ctl")
GetBody == BodyGet("ctl")
GetMetaCall == BeginGetMeta("ctl")
GetMetaBody == BodyGetMeta("ctl")
Returned == Return("ctl")

Next ==
    \/ SetCall \/ SetBody \/ SetAgainCall
    \/ GetCall \/ GetBody
    \/ GetMetaCall \/ GetMetaBody
    \/ Returned

Spec == Init /\ [][Next]_vars

----------------------------------------------------------------------------
(* Streaming: start, stop, execute_trigger, get_shape, the camera's frame  *)
(* delivery, and get_frame, which runs without lock_.                      *)

\* Bounds of the streaming model
MaxFrames == 2
MaxQueued == 1

BytesPerPixel(fmt) == IF fmt = "Mono8" THEN 1 ELSE 2

\* The frame the camera delivers now.  Its delivered height may fall short
\* of the nominal height, and its base pointer may be null.
FrameOf(d, seq, kind) ==
    [seq |-> seq,
     width |-> d.Width,
     height |-> d.Height,
     deliveredHeight |-> IF kind = "short" THEN d.Height - 1 ELSE d.Height,
     size |-> d.Width * d.Height * BytesPerPixel(d.PixelFormat),
     base |-> kind # "null",
     pixelFormat |-> d.PixelFormat]

\* The camera exposes a frame into a free buffer: free-running when
\* TriggerMode is Off; when it is On, one frame per software trigger, or
\* whenever an edge arrives on the external line.
Deliver ==
    /\ grab.running
    /\ \/ dev.TriggerMode = "Off"
       \/ dev.TriggerSource = "Line0"
       \/ grab.pulse
    /\ Len(grab.queue) < MaxQueued
    /\ grab.delivered < MaxFrames
    /\ \E kind \in {"full", "short", "null"} :
          grab' = [grab EXCEPT
                     !.queue = Append(@, FrameOf(dev, grab.delivered, kind)),
                     !.delivered = @ + 1,
                     !.pulse = FALSE]
    /\ UNCHANGED <<dev, lks, lkc, frame_id_, lock_, pc, call, ret,
                   workload, configured, driver>>

\* The consumer's get_frame is blocked in ScopedBuffer's constructor
Blocked(t) ==
    pc[t] = "waiting" /\ grab.queue = <<>> /\ ~grab.cancel

\* EGCamera::start after frame_id_ = 0
start(c) ==
    HwCall(HwCall(c, "reallocBuffers", NBUFFERS), "start", 0)

\* EGCamera::stop
stop(c) ==
    HwCall(HwWrite(HwCall(c, "stop", 0), "TriggerMode", "Off"),
           "cancelPop", 0)

\* EGCamera::execute_trigger
execute_trigger(c) == HwCall(c, "TriggerSoftware", 0)

\* EGCamera::get_shape.  fault 1: a query throws.
get_shape(c) ==
    IF c.fault = 1 THEN Throw(c, "sdk")
    ELSE [c EXCEPT !.arg =
            [dims |-> [channels |-> 1, width |-> c.dev.Width,
                       height |-> c.dev.Height, planes |-> 1],
             strides |-> [channels |-> 1, width |-> 1,
                          height |-> c.dev.Width,
                          planes |-> c.dev.Width * c.dev.Height],
             type |-> at_or(px_type_table_, c.dev.PixelFormat, "Unknown")]]

\* The body's SDK call f was made and did not throw
Did(c, f) ==
    \E i \in 1 .. Len(c.log) : c.log[i].f = f /\ c.log[i].ok

\* The grabber after a body's stream calls.  cancelPop ends the wait of a
\* pop in progress; with no pop waiting, whether the next pop is aborted
\* is the SDK's choice (sticky).
GrabAfter(c, sticky) ==
    LET g1 == IF Did(c, "reallocBuffers") THEN Realloc(grab) ELSE grab
        g2 == IF Did(c, "start") THEN [g1 EXCEPT !.running = TRUE] ELSE g1
        g3 == IF Did(c, "stop")
              THEN [g2 EXCEPT !.running = FALSE, !.pulse = FALSE] ELSE g2
        g4 == IF Did(c, "cancelPop") /\ pc["consumer"] # "waiting"
              THEN [g3 EXCEPT !.cancel = sticky] ELSE g3
        g5 == IF /\ Did(c, "TriggerSoftware") /\ g4.running
                 /\ c.dev.TriggerMode = "On"
                 /\ c.dev.TriggerSource = "Software"
              THEN [g4 EXCEPT !.pulse = TRUE] ELSE g4
    IN  g5

\* cancelPop wakes the pop that is waiting: it throws in the consumer
PcAfter(c, t, to) ==
    [u \in Threads |->
        IF u = t THEN to
        ELSE IF u = "consumer" /\ pc[u] = "waiting" /\ Did(c, "cancelPop")
             THEN "aborted"
             ELSE pc[u]]

\* Finish, for the bodies that may wake the consumer
FinishStream(t, c) ==
    /\ Release(t)
    /\ pc' = PcAfter(c, t, "returned")
    /\ ret' = [ret EXCEPT ![t] =
                 [op |-> call[t].op, arg |-> call[t].arg, out |-> c.arg,
                  status |-> Status(c), err |-> c.err, log |-> c.log,
                  fault |-> c.fault]]
    /\ call' = [call EXCEPT ![t] = NoCall]

BeginStop(t) == Begin(t, "stop", 0)

\* eecam_stop: EGCamera::stop under lock_
BodyStop(t) ==
    /\ pc[t] = "locked" /\ call[t].op = "stop"
    /\ \E fault \in 0 .. 3, sticky \in BOOLEAN :
          LET c == stop(Ctx(fault, call[t].arg))
          IN  /\ dev' = c.dev
              /\ grab' = GrabAfter(c, sticky)
              /\ FinishStream(t, c)
    /\ UNCHANGED <<lks, lkc, frame_id_, workload, configured, driver>>

BeginExecuteTrigger(t) == Begin(t, "execute_trigger", 0)

\* eecam_execute_trigger: EGCamera::execute_trigger under lock_
BodyExecuteTrigger(t) ==
    /\ pc[t] = "locked" /\ call[t].op = "execute_trigger"
    /\ \E fault \in 0 .. 1 :
          LET c == execute_trigger(Ctx(fault, call[t].arg))
          IN  /\ grab' = GrabAfter(c, FALSE)
              /\ Finish(t, c)
    /\ UNCHANGED <<dev, lks, lkc, frame_id_, workload, configured, driver>>

BeginGetShape(t) == Begin(t, "get_shape", 0)

\* eecam_get_shape: EGCamera::get_shape under lock_
BodyGetShape(t) ==
    /\ pc[t] = "locked" /\ call[t].op = "get_shape"
    /\ \E fault \in 0 .. 1 :
          LET c == get_shape(Ctx(fault, call[t].arg))
          IN  Finish(t, c)
    /\ UNCHANGED <<dev, lks, lkc, frame_id_, grab, workload, configured,
                   driver>>

\* eecam_start makes up to two attempts; each failed attempt is followed by
\* eecam_stop.  EGCamera::start and EGCamera::stop each take lock_ for
\* their own body only.
BeginStart(t) ==
    /\ pc[t] = "idle"
    /\ driver.opened /\ "start" \in OpsOf(workload)
    /\ Acquire(t, "start")
    /\ pc' = [pc EXCEPT ![t] = "locked"]
    /\ call' = [call EXCEPT ![t] =
                  [op |-> "start", arg |-> 0, attempts |-> 0,
                   phase |-> "start"]]
    /\ ret' = [ret EXCEPT ![t] = NoRet]
    /\ UNCHANGED <<dev, lks, lkc, frame_id_, grab, workload, configured,
                   driver>>

\* The next body of eecam_start's loop takes lock_
Relock(t) ==
    /\ pc[t] = "relock"
    /\ Acquire(t, call[t].phase)
    /\ pc' = [pc EXCEPT ![t] = "locked"]
    /\ UNCHANGED <<dev, lks, lkc, frame_id_, grab, call, ret, workload,
                   configured, driver>>

\* One attempt of eecam_start: EGCamera::start under lock_
BodyStart(t) ==
    /\ pc[t] = "locked" /\ call[t].op = "start" /\ call[t].phase = "start"
    /\ \E fault \in 0 .. 2 :
          LET c == start(Ctx(fault, 0))
          IN  /\ frame_id_' = 0
              /\ grab' = GrabAfter(c, FALSE)
              /\ Release(t)
              /\ IF c.ok
                 THEN /\ pc' = [pc EXCEPT ![t] = "returned"]
                      /\ ret' = [ret EXCEPT ![t] =
                            [op |-> "start", arg |-> 0, out |-> 0,
                             status |-> Device_Ok,
                             err |-> "none",
                             attempts |-> call[t].attempts + 1]]
                      /\ call' = [call EXCEPT ![t] = NoCall]
                 ELSE /\ pc' = [pc EXCEPT ![t] = "relock"]
                      /\ call' = [call EXCEPT ![t].phase = "stop"]
                      /\ ret' = ret
              /\ configured' = IF c.ok /\ configured.set
                                THEN [configured EXCEPT !.started = TRUE]
                                ELSE configured
    /\ UNCHANGED <<dev, lks, lkc, workload, driver>>

\* The mutant of MoreAttempts: a third attempt is made.
MoreAttemptsThree(n) == n < 3

\* eecam_start's loop condition, attempts < 2, after ++attempts
MoreAttempts(n) == n < 2

\* eecam_stop as eecam_start calls it after a failed attempt; its status
\* is dropped
BodyStartStop(t) ==
    /\ pc[t] = "locked" /\ call[t].op = "start" /\ call[t].phase = "stop"
    /\ \E fault \in 0 .. 3, sticky \in BOOLEAN :
          LET c == stop(Ctx(fault, 0))
              n == call[t].attempts + 1
          IN  /\ dev' = c.dev
              /\ grab' = GrabAfter(c, sticky)
              /\ Release(t)
              /\ IF MoreAttempts(n)
                 THEN /\ pc' = PcAfter(c, t, "relock")
                      /\ call' = [call EXCEPT ![t].phase = "start",
                                              ![t].attempts = n]
                      /\ ret' = ret
                 ELSE /\ pc' = PcAfter(c, t, "returned")
                      /\ ret' = [ret EXCEPT ![t] =
                            [op |-> "start", arg |-> 0, out |-> 0,
                             status |-> Device_Err,
                             err |-> "sdk",
                             attempts |-> n]]
                      /\ call' = [call EXCEPT ![t] = NoCall]
    /\ UNCHANGED <<lks, lkc, frame_id_, workload, configured, driver>>

\* The buffer sizes a caller of get_frame passes (a full-shape Mono8 frame
\* takes 4 bytes)
Capacities == {3, 4}

Unwritten == [written |-> FALSE]

\* The sequence number of the frame that the get_frame this caller has
\* just seen fail had taken from the pool (-1: there is none)
Refused(t) ==
    IF ret[t].op = "get_frame" /\ ret[t].err \in {"capacity", "null"}
    THEN ret[t].frame.seq
    ELSE -1

\* get_frame is called: the thread constructs the ScopedBuffer and waits
\* for a filled buffer
EnterGetFrame(t, nbytes, retry) ==
    /\ driver.opened /\ "get_frame" \in OpsOf(workload)
    /\ Acquire(t, "get_frame")
    /\ pc' = [pc EXCEPT ![t] = "waiting"]
    /\ call' = [call EXCEPT ![t] =
                  [op |-> "get_frame", nbytes |-> nbytes, retry |-> retry,
                   last |-> Refused(t)]]
    /\ ret' = [ret EXCEPT ![t] = NoRet]
    /\ UNCHANGED <<dev, lks, lkc, frame_id_, grab, workload, configured,
                   driver>>

GetFrameCall(t) ==
    /\ pc[t] = "idle"
    /\ \E nbytes \in Capacities : EnterGetFrame(t, nbytes, FALSE)

\* The caller retries a get_frame that failed on the buffer size, now with
\* a buffer that holds the frame it was refused
GetFrameRetry(t) ==
    /\ pc[t] = "returned" /\ ret[t].op = "get_frame"
    /\ ret[t].err = "capacity"
    /\ \E nbytes \in Capacities :
          /\ nbytes >= ret[t].frame.size
          /\ EnterGetFrame(t, nbytes, TRUE)

\* The mutant of Failed: the checks come after the memcpy.
FailedAfterCopy(t, why, frame) ==
    [op |-> "get_frame", nbytes |-> call[t].nbytes, retry |-> call[t].retry,
     last |-> call[t].last, status |-> Device_Err, err |-> why,
     frame |-> frame, copied |-> TRUE, info |-> Unwritten, diag |-> FALSE]

\* What eecam_get_frame hands back when EGCamera::get_frame threw
Failed(t, why, frame) ==
    [op |-> "get_frame", nbytes |-> call[t].nbytes, retry |-> call[t].retry,
     last |-> call[t].last, status |-> Device_Err, err |-> why, frame |-> frame, copied |-> FALSE,
     info |-> Unwritten, diag |-> FALSE]

\* ScopedBuffer's constructor returns with the oldest filled buffer, or
\* the pop or one of the getInfo calls throws (the buffer is then released)
GetFramePop(t) ==
    /\ pc[t] = "waiting" /\ grab.queue # <<>> /\ ~grab.cancel
    /\ \E fault \in 0 .. 1 :
          IF fault = 0
          THEN /\ grab' = [grab EXCEPT !.queue = Tail(@), !.held = @ + 1]
               /\ pc' = [pc EXCEPT ![t] = "holding"]
               /\ call' = [call EXCEPT ![t] =
                             [op |-> "get_frame", nbytes |-> call[t].nbytes,
                              retry |-> call[t].retry,
                              last |-> call[t].last,
                              frame |-> Head(grab.queue)]]
               /\ ret' = ret
               /\ lock_' = lock_
          ELSE /\ grab' = PushBack([grab EXCEPT !.queue = Tail(@),
                                                !.held = @ + 1])
               /\ pc' = [pc EXCEPT ![t] = "returned"]
               /\ ret' = [ret EXCEPT ![t] = Failed(t, "sdk", Head(grab.queue))]
               /\ call' = [call EXCEPT ![t] = NoCall]
               /\ Release(t)
    /\ UNCHANGED <<dev, lks, lkc, frame_id_, workload, configured, driver>>

\* The wait was cancelled: the constructor throws
GetFrameAbort(t) ==
    /\ pc[t] = "aborted" \/ (pc[t] = "waiting" /\ grab.cancel)
    /\ grab' = IF pc[t] = "waiting" THEN [grab EXCEPT !.cancel = FALSE]
               ELSE grab
    /\ pc' = [pc EXCEPT ![t] = "returned"]
    /\ ret' = [ret EXCEPT ![t] = Failed(t, "cancelled", Unwritten)]
    /\ call' = [call EXCEPT ![t] = NoCall]
    /\ Release(t)
    /\ UNCHANGED <<dev, lks, lkc, frame_id_, workload, configured, driver>>

\* The mutant of capacity_ok: the buffer must be larger than the frame.
capacity_strict(nbytes, size) == nbytes > size

\* The mutant of capacity_ok: no check.
capacity_unchecked(nbytes, size) == TRUE

\* CHECK(*nbytes >= buf_info.size)
capacity_ok(nbytes, size) == nbytes >= size

\* The mutant of InfoOf: the height is the delivered height.
InfoOfDelivered(f, id) ==
    [written |-> TRUE,
     shape |-> [dims |-> [channels |-> 1, width |-> f.width,
                          height |-> f.deliveredHeight, planes |-> 1],
                strides |-> [channels |-> 1, width |-> 1,
                             height |-> f.width,
                             planes |-> f.width * f.deliveredHeight],
                type |-> at_or(px_type_table_, f.pixelFormat, "Unknown")],
     hardware_timestamp |-> f.seq,
     hardware_frame_id |-> id]

\* The ImageInfo get_frame builds
InfoOf(f, id) ==
    [written |-> TRUE,
     shape |-> [dims |-> [channels |-> 1, width |-> f.width,
                          height |-> f.height, planes |-> 1],
                strides |-> [channels |-> 1, width |-> 1,
                             height |-> f.width,
                             planes |-> f.width * f.height],
                type |-> at_or(px_type_table_, f.pixelFormat, "Unknown")],
     hardware_timestamp |-> f.seq,
     hardware_frame_id |-> id]

\* get_frame from the getInfo calls to the read of frame_id_: the two
\* checks, the height diagnostic, memcpy, and *info up to frame_id_++,
\* whose read and write are two unsynchronised accesses
GetFrameCopy(t) ==
    /\ pc[t] = "holding"
    /\ LET f == call[t].frame
       IN  IF ~capacity_ok(call[t].nbytes, f.size)
           THEN /\ pc' = [pc EXCEPT ![t] = "returned"]
                /\ ret' = [ret EXCEPT ![t] = Failed(t, "capacity", f)]
                /\ call' = [call EXCEPT ![t] = NoCall]
                /\ grab' = PushBack(grab)
                /\ Release(t)
           ELSE IF ~f.base
           THEN /\ pc' = [pc EXCEPT ![t] = "returned"]
                /\ ret' = [ret EXCEPT ![t] = Failed(t, "null", f)]
                /\ call' = [call EXCEPT ![t] = NoCall]
                /\ grab' = PushBack(grab)
                /\ Release(t)
           ELSE /\ pc' = [pc EXCEPT ![t] = "storing"]
                /\ call' = [call EXCEPT ![t] =
                              [op |-> "get_frame", nbytes |-> call[t].nbytes,
                               retry |-> call[t].retry,
                               last |-> call[t].last, frame |-> f,
                               id |-> frame_id_]]
                /\ ret' = ret
                /\ grab' = grab
                /\ lock_' = lock_
    /\ UNCHANGED <<dev, lks, lkc, frame_id_, workload, configured, driver>>

\* The write of frame_id_++, the ScopedBuffer's release, the return
GetFrameStore(t) ==
    /\ pc[t] = "storing"
    /\ frame_id_' = call[t].id + 1
    /\ pc' = [pc EXCEPT ![t] = "returned"]
    /\ ret' = [ret EXCEPT ![t] =
                 [op |-> "get_frame", nbytes |-> call[t].nbytes,
                  retry |-> call[t].retry, last |-> call[t].last,
                  status |-> Device_Ok,
                  err |-> "none", frame |-> call[t].frame, copied |-> TRUE,
                  info |-> InfoOf(call[t].frame, call[t].id),
                  diag |-> call[t].frame.deliveredHeight
                             # call[t].frame.height]]
    /\ call' = [call EXCEPT ![t] = NoCall]
    /\ grab' = PushBack(grab)
    /\ Release(t)
    /\ UNCHANGED <<dev, lks, lkc, workload, configured, driver>>

StreamInit ==
    /\ workload \in {"stream", "query"}
    /\ Constructed(TRUE)

StartCall == BeginStart("ctl")
StartAttempt == BodyStart("ctl")
StartRelock == Relock("ctl")
StartRetryStop == BodyStartStop("ctl")
StopCall == BeginStop("ctl")
StopBody == BodyStop("ctl")
ExecuteTriggerCall == BeginExecuteTrigger("ctl")
ExecuteTriggerBody == BodyExecuteTrigger("ctl")
GetShapeCall == BeginGetShape("ctl")
GetShapeBody == BodyGetShape("ctl")
FrameCall == GetFrameCall("consumer")
FrameRetry == GetFrameRetry("consumer")
FramePop == GetFramePop("consumer")
FrameAbort == GetFrameAbort("consumer")
FrameCopy == GetFrameCopy("consumer")
FrameStore == GetFrameStore("consumer")
FrameReturned == Return("consumer")

StreamNext ==
    \/ SetCall \/ SetBody
    \/ GetCall \/ GetBody
    \/ GetMetaCall \/ GetMetaBody
    \/ GetShapeCall \/ GetShapeBody
    \/ StartCall \/ StartAttempt \/ StartRelock \/ StartRetryStop
    \/ StopCall \/ StopBody
    \/ ExecuteTriggerCall \/ ExecuteTriggerBody
    \/ Returned
    \/ FrameCall \/ FrameRetry \/ FramePop \/ FrameAbort
    \/ FrameCopy \/ FrameStore \/ FrameReturned
    \/ Deliver

SpecStream == StreamInit /\ [][StreamNext]_vars

----------------------------------------------------------------------------
(* The driver: describe, open, close, shutdown.  One camera is attached.   *)
(* The runtime opens a device it has not opened, closes a device once no   *)
(* call on it is in progress, and shuts the driver down last.              *)

\* The cameras EGrabberDiscovery finds
NumCameras == 1

\* A uint64_t as three limbs <<bits 32 and up, bits 16..31, bits 0..15>>
Limb == 2 ^ 16
U64(hi, mid, lo) == <<hi, mid, lo>>

\* a < b on uint64_t
Less(a, b) ==
    \/ a[1] < b[1]
    \/ a[1] = b[1] /\ a[2] < b[2]
    \/ a[1] = b[1] /\ a[2] = b[2] /\ a[3] < b[3]

\* (int)i: the low 32 bits, two's complement
ToInt(a) ==
    IF a[2] < Limb \div 2 THEN a[2] * Limb + a[3]
    ELSE (a[2] - Limb) * Limb + a[3]

\* 1 << 8, and (1ULL << 8 * sizeof(int)) - 1
Uint8Limit == U64(0, 0, 256)
Int32Limit == U64(0, Limb - 1, Limb - 1)

DeviceIndexes ==
    {U64(0, 0, 0), U64(0, 0, 1), U64(0, 0, 256),
     U64(0, Limb - 1, Limb - 2), U64(0, Limb - 1, Limb - 1)}

\* discovery.cameras((int)i), handed to an EGrabber: throws for an index
\* outside the cameras found
OpenGrabber(c, i) ==
    IF ~c.ok THEN c
    ELSE IF 0 <= ToInt(i) /\ ToInt(i) < NumCameras
         THEN HwCall(c, "EGrabber", ToInt(i))
         ELSE Throw(HwCall(c, "EGrabber", ToInt(i)), "sdk")

\* EGDriver::describe
describe(c) ==
    LET i  == c.arg
        c1 == HwCall(c, "discover", 0)
        c2 == IF c1.ok /\ ~Less(i, Uint8Limit)
              THEN Throw(c1, "validation") ELSE c1
        c3 == OpenGrabber(c2, i)
        c4 == HwCall(HwCall(HwCall(c3, "DeviceVendorName", 0),
                            "DeviceModelName", 0),
                     "DeviceSerialNumber", 0)
    IN  IF c4.ok
        THEN [c4 EXCEPT !.arg = [device_id |-> i[3] % 256,
                                 kind |-> "DeviceKind_Camera",
                                 name |-> "vendor model serial"]]
        ELSE c4

\* A method called from a constructor or destructor, with the faults that
\* are left once the calls before it have been counted
Sub(c, n) ==
    [c EXCEPT !.fault = IF c.fault > n THEN c.fault - n ELSE 0]

\* EGCamera::EGCamera: the grabber, then "just in case" stop,
\* AcquisitionStop, TriggerMode Off, then get and get_meta fill the caches
EGCamera(c, i, p) ==
    LET c1 == HwWrite(HwCall(HwCall(OpenGrabber(c, i), "stop", 0),
                             "AcquisitionStop", 0),
                      "TriggerMode", "Off")
        n  == Len(c1.log)
        c2 == IF c1.ok THEN get(Sub(c1, n), p) ELSE c1
        c3 == IF c2.ok
              THEN get_meta([Sub(c1, n + 2) EXCEPT !.arg = NoMeta])
              ELSE c2
    IN  IF c3.ok THEN [c3 EXCEPT !.lks = Padded(GetProps(c1.dev), p),
                                 !.val = MetaOf(c1.dev),
                                 !.log = c1.log]
        ELSE [c3 EXCEPT !.log = c1.log, !.dev = c1.dev]

\* EGDriver::open
open(c, p) ==
    LET c1 == IF c.arg.out_null THEN Throw(c, "validation") ELSE c
        c2 == IF c1.ok /\ ~Less(c.arg.device_id, Int32Limit)
              THEN Throw(c1, "validation") ELSE c1
        c3 == HwCall(c2, "discover", 0)
    IN  IF c3.ok THEN EGCamera(c3, c.arg.device_id, p) ELSE c3

\* The mutant of Destroy: a failure of a teardown step leaves the destructor.
DestroyThrowing(c) ==
    HwWrite(HwCall(stop(c), "AcquisitionStop", 0), "TriggerMode", "Off")

\* EGCamera::~EGCamera: stop, AcquisitionStop, TriggerMode Off inside
\* try { } catch (...) { }
Destroy(c) ==
    LET d == HwWrite(HwCall(stop(c), "AcquisitionStop", 0),
                     "TriggerMode", "Off")
    IN  [d EXCEPT !.ok = TRUE, !.err = "none"]

\* EGDriver::close
close(c) ==
    IF c.arg.in_null THEN Throw(c, "validation") ELSE Destroy(c)

\* A driver entry point is called; none takes lock_ itself
BeginDriver(t, op, arg) ==
    /\ workload \in {"driver", "caps"} /\ driver.alive
    /\ pc[t] = "idle"
    /\ pc' = [pc EXCEPT ![t] = "locked"]
    /\ call' = [call EXCEPT ![t] = [op |-> op, arg |-> arg]]
    /\ ret' = [ret EXCEPT ![t] = NoRet]
    /\ UNCHANGED <<dev, lks, lkc, frame_id_, lock_, grab, workload,
                   configured, driver>>

BeginDescribe(t) == \E i \in DeviceIndexes : BeginDriver(t, "describe", i)

\* eecam_describe
BodyDescribe(t) ==
    /\ pc[t] = "locked" /\ call[t].op = "describe"
    /\ \E fault \in 0 .. 5 :
          Finish(t, describe(Ctx(fault, call[t].arg)))
    /\ UNCHANGED <<dev, lks, lkc, frame_id_, grab, workload, configured,
                   driver>>

BeginOpen(t) ==
    /\ ~driver.opened
    /\ \E i \in DeviceIndexes, out_null \in BOOLEAN :
          BeginDriver(t, "open", [device_id |-> i, out_null |-> out_null])

\* eecam_open: on success the new EGCamera is the state Constructed
\* describes, over the registers the device holds now
BodyOpen(t) ==
    /\ pc[t] = "locked" /\ call[t].op = "open"
    /\ \E fault \in 0 .. 12, p \in PadBytes :
          LET c == open(Ctx(fault, call[t].arg), p)
          IN  /\ dev' = c.dev
              /\ lks' = IF c.ok THEN c.lks ELSE lks
              /\ lkc' = IF c.ok THEN c.val ELSE lkc
              /\ frame_id_' = IF c.ok THEN 0 ELSE frame_id_
              /\ grab' = IF Did(c, "stop")
                         THEN [grab EXCEPT !.running = FALSE, !.pulse = FALSE]
                         ELSE grab
              /\ driver' = [driver EXCEPT !.opened = c.ok]
              /\ Finish(t, [c EXCEPT !.arg = c.ok, !.lks = 0, !.val = 0])
    /\ UNCHANGED <<workload, configured>>

BeginClose(t) ==
    /\ lock_ = "none"
    /\ \E in_null \in BOOLEAN :
          /\ in_null \/ driver.opened
          /\ BeginDriver(t, "close", [in_null |-> in_null])

\* eecam_close: the destructor runs stop under lock_, then the grabber
\* and its buffers are gone
BodyClose(t) ==
    /\ pc[t] = "locked" /\ call[t].op = "close"
    /\ \E fault \in 0 .. 5 :
          LET c == close(Ctx(fault, call[t].arg))
          IN  /\ dev' = c.dev
              /\ grab' = IF call[t].arg.in_null THEN grab
                         ELSE [grab EXCEPT !.running = FALSE,
                                           !.pulse = FALSE,
                                           !.cancel = FALSE,
                                           !.queue = <<>>]
              /\ driver' = [driver EXCEPT
                              !.opened = @ /\ call[t].arg.in_null]
              /\ Finish(t, c)
    /\ UNCHANGED <<lks, lkc, frame_id_, workload, configured>>

BeginShutdown(t) ==
    /\ ~driver.opened
    /\ BeginDriver(t, "shutdown", 0)

\* eecam_shutdown_: delete (EGDriver*)self_
BodyShutdown(t) ==
    /\ pc[t] = "locked" /\ call[t].op = "shutdown"
    /\ driver' = [driver EXCEPT !.alive = FALSE]
    /\ Finish(t, Ctx(0, 0))
    /\ UNCHANGED <<dev, lks, lkc, frame_id_, grab, workload, configured>>

DriverInit ==
    /\ workload = "driver"
    /\ dev = PowerOn(TRUE)
    /\ lks = GetProps(dev)
    /\ lkc = MetaOf(dev)
    /\ frame_id_ = 0
    /\ lock_ = "none"
    /\ grab = InitGrab
    /\ pc = [t \in Threads |-> "idle"]
    /\ call = [t \in Threads |-> NoCall]
    /\ ret = [t \in Threads |-> NoRet]
    /\ driver = [alive |-> TRUE, opened |-> FALSE]
    /\ configured = Unconfigured

\* The entry points of the Camera function table
CameraOps ==
    {"set", "get", "get_meta", "get_shape", "start", "stop",
     "execute_trigger", "get_frame"}

\* What the caller of a call with a null pointer gets back, or, when the
\* process died in the call, what the call had done (reads: the method had
\* queried the device)
NullRet(op, which, c, reads) ==
    [op |-> op, null |-> which, arg |-> 0, out |-> 0,
     status |-> IF c.ok THEN "none" ELSE Status(c), err |-> c.err,
     log |-> c.log, fault |-> c.fault, again |-> FALSE, reads |-> reads]

\* A camera entry point is called with self_ null: CHECK(self_) throws
\* before the method is entered, the wrapper catches.  eecam_start goes
\* through its two attempts, each followed by eecam_stop(NULL), which fails
\* the same way.
NullHandle(t) ==
    /\ workload = "driver" /\ driver.alive
    /\ pc[t] = "idle"
    /\ \E op \in CameraOps :
          ret' = [ret EXCEPT ![t] =
                    NullRet(op, "handle", Throw(Ctx(0, 0), "validation"),
                            FALSE)]
    /\ pc' = [pc EXCEPT ![t] = "returned"]
    /\ UNCHANGED <<dev, lks, lkc, frame_id_, lock_, grab, call, workload,
                   driver, configured>>

\* set, get, get_meta or get_shape is called with its pointer argument
\* null.  No entry point checks it.  set reads settings->exposure_time_us
\* before its first SDK call; get, get_meta and get_shape query the device
\* first (fault 1: a query throws and the wrapper returns Device_Err) and
\* then store through the pointer.  The access through the null pointer
\* ends the process, inside the method and under lock_.
NullOutput(t) ==
    /\ workload = "driver" /\ driver.alive /\ driver.opened
    /\ pc[t] = "idle" /\ lock_ = "none"
    /\ \E op \in {"set", "get", "get_meta", "get_shape"}, fault \in 0 .. 1 :
          /\ op = "set" => fault = 0
          /\ IF fault = 1
             THEN /\ pc' = [pc EXCEPT ![t] = "returned"]
                  /\ ret' = [ret EXCEPT ![t] =
                               NullRet(op, "output",
                                       Throw(Ctx(fault, 0), "sdk"), TRUE)]
                  /\ lock_' = lock_
             ELSE /\ pc' = [pc EXCEPT ![t] = "crashed"]
                  /\ ret' = [ret EXCEPT ![t] =
                               NullRet(op, "output", Ctx(fault, 0),
                                       op # "set")]
                  /\ lock_' = t
    /\ UNCHANGED <<dev, lks, lkc, frame_id_, grab, call, workload, driver,
                   configured>>

\* get_frame is called with info null while a frame is ready.  The buffer
\* is popped and checked as ever; then the frame is copied, the
\* initializer of *info is evaluated, frame_id_++ included, and the store
\* through info ends the process with the buffer still held.
NullInfo(t) ==
    /\ workload = "driver" /\ driver.alive /\ driver.opened
    /\ pc[t] = "idle"
    /\ grab.queue # <<>> /\ ~grab.cancel
    /\ \E nbytes \in Capacities, fault \in 0 .. 1 :
          LET f == Head(grab.queue)
              popped == [grab EXCEPT !.queue = Tail(@), !.held = @ + 1]
              why == IF fault = 1 THEN "sdk"
                     ELSE IF ~capacity_ok(nbytes, f.size) THEN "capacity"
                     ELSE IF ~f.base THEN "null"
                     ELSE "none"
          IN  IF why # "none"
              THEN /\ pc' = [pc EXCEPT ![t] = "returned"]
                   /\ ret' = [ret EXCEPT ![t] =
                                NullRet("get_frame", "output",
                                        Throw(Ctx(fault, 0), why), TRUE)
                                @@ [nbytes |-> nbytes, retry |-> FALSE,
                                    frame |-> f, copied |-> FALSE,
                                    info |-> Unwritten, diag |-> FALSE]]
                   /\ grab' = PushBack(popped)
                   /\ frame_id_' = frame_id_
              ELSE /\ pc' = [pc EXCEPT ![t] = "crashed"]
                   /\ ret' = [ret EXCEPT ![t] =
                                NullRet("get_frame", "output", Ctx(fault, 0),
                                        TRUE)]
                   /\ grab' = popped
                   /\ frame_id_' = frame_id_ + 1
    /\ UNCHANGED <<dev, lks, lkc, lock_, call, workload, driver, configured>>

DescribeCall == BeginDescribe("ctl")
NullHandleCall == NullHandle("ctl")
NullOutputCall == NullOutput("ctl")
NullInfoCall == NullInfo("ctl")
DescribeBody == BodyDescribe("ctl")
OpenCall == BeginOpen("ctl")
OpenBody == BodyOpen("ctl")
CloseCall == BeginClose("ctl")
CloseBody == BodyClose("ctl")
ShutdownCall == BeginShutdown("ctl")
ShutdownBody == BodyShutdown("ctl")
OwnFrameCall == GetFrameCall("ctl")
OwnFrameRetry == GetFrameRetry("ctl")
OwnFramePop == GetFramePop("ctl")
OwnFrameAbort == GetFrameAbort("ctl")
OwnFrameCopy == GetFrameCopy("ctl")
OwnFrameStore == GetFrameStore("ctl")

\* One thread drives the driver and its camera through every entry point
DriverNext ==
    \/ DescribeCall \/ DescribeBody
    \/ OpenCall \/ OpenBody
    \/ CloseCall \/ CloseBody
    \/ ShutdownCall \/ ShutdownBody
    \/ SetCall \/ SetBody
    \/ GetCall \/ GetBody
    \/ GetMetaCall \/ GetMetaBody
    \/ GetShapeCall \/ GetShapeBody
    \/ StartCall \/ StartAttempt \/ StartRelock \/ StartRetryStop
    \/ StopCall \/ StopBody
    \/ ExecuteTriggerCall \/ ExecuteTriggerBody
    \/ OwnFrameCall \/ OwnFrameRetry \/ OwnFramePop \/ OwnFrameAbort
    \/ OwnFrameCopy \/ OwnFrameStore
    \/ NullHandleCall \/ NullOutputCall \/ NullInfoCall
    \/ Returned
    \/ Deliver

SpecDriver == DriverInit /\ [][DriverNext]_vars

----------------------------------------------------------------------------
(* One thread opening, configuring and querying cameras that differ in    *)
(* what they report: the exposure-time unit, the list of pixel formats,    *)
(* and whether the offset ranges follow the shape in force.                *)

\* Pixel-format names a camera may list; the last two are not in
\* px_type_table_
FormatNames == {"Mono8", "Mono16", "BayerRG8", "RGB8"}

CapsDevices ==
    {[PowerOn(TRUE) EXCEPT !.ExposureTimeUnit = u, !.PixelFormats = fs,
                           !.Coupled = k] :
        u \in {"us", "ns"}, fs \in SUBSET FormatNames, k \in BOOLEAN}

CapsInit ==
    /\ workload = "caps"
    /\ dev \in CapsDevices
    /\ lks = GetProps(dev)
    /\ lkc = MetaOf(dev)
    /\ frame_id_ = 0
    /\ lock_ = "none"
    /\ grab = InitGrab
    /\ pc = [t \in Threads |-> "idle"]
    /\ call = [t \in Threads |-> NoCall]
    /\ ret = [t \in Threads |-> NoRet]
    /\ driver = [alive |-> TRUE, opened |-> FALSE]
    /\ configured = Unconfigured

CapsNext ==
    \/ OpenCall \/ OpenBody
    \/ CloseCall \/ CloseBody
    \/ SetCall \/ SetBody
    \/ GetMetaCall \/ GetMetaBody
    \/ Returned

SpecCaps == CapsInit /\ [][CapsNext]_vars

----------------------------------------------------------------------------
(* One thread that reads the settings of a camera and writes them back, on *)
(* cameras found in any register state, among them pixel formats, trigger  *)
(* sources and trigger activations that the adapter's tables do not hold.  *)
(* The camera starts as the constructor leaves it, with TriggerMode Off;   *)
(* TriggerMode On is reached by a set that enables the trigger.            *)

EchoDevices ==
    {[PowerOn(w) EXCEPT !.PixelFormat = pf,
                        !.PixelFormats = {"Mono8", "Mono16", pf},
                        !.TriggerSource = src, !.TriggerMode = m,
                        !.TriggerActivation = act] :
        w \in BOOLEAN, pf \in {"Mono8", "BayerRG8"},
        src \in {"Line0", "Software", "Line1"}, m \in {"Off", "On"},
        act \in {"RisingEdge", "LevelHigh", "BothEdges"}}

\* The registers the constructor leaves of the registers d it found: it
\* writes TriggerMode Off before get fills the cache
Opened(d) == [d EXCEPT !.TriggerMode = "Off"]

EchoInit ==
    /\ workload = "echo"
    /\ \E d \in EchoDevices : dev = Opened(d)
    /\ \E p \in PadBytes : lks = Padded(GetProps(dev), p)
    /\ lkc = MetaOf(dev)
    /\ frame_id_ = 0
    /\ lock_ = "none"
    /\ grab = InitGrab
    /\ pc = [t \in Threads |-> "idle"]
    /\ call = [t \in Threads |-> NoCall]
    /\ ret = [t \in Threads |-> NoRet]
    /\ driver = [alive |-> TRUE, opened |-> TRUE]
    /\ configured = Unconfigured

EchoNext ==
    \/ GetCall \/ GetBody
    \/ SetBackCall
    \/ SetCall \/ SetBody
    \/ Returned

SpecEcho == EchoInit /\ [][EchoNext]_vars

----------------------------------------------------------------------------
(* One thread that configures a shape, starts the camera and retrieves     *)
(* frames, as the delivered-height sandbox program does                    *)

ShapeInit ==
    /\ workload = "shape"
    /\ Constructed(TRUE)

ShapeNext ==
    \/ SetCall \/ SetBody
    \/ StartCall \/ StartAttempt \/ StartRelock \/ StartRetryStop
    \/ OwnFrameCall \/ OwnFrameRetry \/ OwnFramePop \/ OwnFrameAbort
    \/ OwnFrameCopy \/ OwnFrameStore
    \/ Returned
    \/ Deliver

SpecShape == ShapeInit /\ [][ShapeNext]_vars

----------------------------------------------------------------------------
(* Two threads calling the lock-guarded operations of one EGCamera *)

LockInit ==
    /\ workload = "lock"
    /\ Constructed(TRUE)

AuxSetCall == BeginSet("aux")
AuxSetBody == BodySet("aux")
AuxGetCall == BeginGet("aux")
AuxGetBody == BodyGet("aux")
AuxGetMetaCall == BeginGetMeta("aux")
AuxGetMetaBody == BodyGetMeta("aux")
AuxGetShapeCall == BeginGetShape("aux")
AuxGetShapeBody == BodyGetShape("aux")
AuxStartCall == BeginStart("aux")
AuxStartAttempt == BodyStart("aux")
AuxStartRelock == Relock("aux")
AuxStartRetryStop == BodyStartStop("aux")
AuxStopCall == BeginStop("aux")
AuxStopBody == BodyStop("aux")
AuxExecuteTriggerCall == BeginExecuteTrigger("aux")
AuxExecuteTriggerBody == BodyExecuteTrigger("aux")
AuxReturned == Return("aux")

LockNext ==
    \/ SetCall \/ SetBody
    \/ GetCall \/ GetBody
    \/ GetMetaCall \/ GetMetaBody
    \/ GetShapeCall \/ GetShapeBody
    \/ StartCall \/ StartAttempt \/ StartRelock \/ StartRetryStop
    \/ StopCall \/ StopBody
    \/ ExecuteTriggerCall \/ ExecuteTriggerBody
    \/ Returned
    \/ AuxSetCall \/ AuxSetBody
    \/ AuxGetCall \/ AuxGetBody
    \/ AuxGetMetaCall \/ AuxGetMetaBody
    \/ AuxGetShapeCall \/ AuxGetShapeBody
    \/ AuxStartCall \/ AuxStartAttempt \/ AuxStartRelock
    \/ AuxStartRetryStop
    \/ AuxStopCall \/ AuxStopBody
    \/ AuxExecuteTriggerCall \/ AuxExecuteTriggerBody
    \/ AuxReturned

SpecLock == LockInit /\ [][LockNext]_vars

----------------------------------------------------------------------------
(* Properties of the settings reconciler (set) and of get *)

\* The numeric registers set writes, with the field of CameraProperties,
\* the cached value and the cached range that belong to each
NumericFeatures ==
    {"ExposureTime", "BinningHorizontal", "BinningVertical", "OffsetX",
     "OffsetY", "Width", "Height"}

FieldOf(P, f) ==
    CASE f = "ExposureTime" -> P.exposure_time_us
      [] f \in {"BinningHorizontal", "BinningVertical"} -> P.binning
      [] f = "OffsetX" -> P.offset.x
      [] f = "OffsetY" -> P.offset.y
      [] f = "Width" -> P.shape.x
      [] f = "Height" -> P.shape.y

RangeOf(m, f) ==
    CASE f = "ExposureTime" -> m.exposure_time_us
      [] f \in {"BinningHorizontal", "BinningVertical"} -> m.binning
      [] f = "OffsetX" -> m.offset.x
      [] f = "OffsetY" -> m.offset.y
      [] f = "Width" -> m.shape.x
      [] f = "Height" -> m.shape.y

InRange(v, r) == r.low <= v /\ v <= r.high

\* The registers the SDK calls of a log name
Written(log) == {log[i].f : i \in 1 .. Len(log)}

TriggerFeatures == {"TriggerSource", "TriggerMode", "TriggerActivation"}

\* The step in which thread t runs the body of set
SetStep(t) ==
    /\ pc[t] = "locked" /\ call[t].op = "set"
    /\ pc'[t] = "returned"

\* C1: a property whose requested value equals the cached one (exposure
\* within Epsilon, the trigger record byte for byte, padding included, the
\* others exactly) gets no hardware write from set, and its cached value
\* stays as it was.
C1_NoWriteWhenUnchanged ==
    [][SetStep("ctl") =>
        LET P == call["ctl"].arg
            W == Written(ret'["ctl"].log)
        IN  /\ Abs(P.exposure_time_us - lks.exposure_time_us) <= Epsilon
                  => /\ "ExposureTime" \notin W
                     /\ lks'.exposure_time_us = lks.exposure_time_us
            /\ P.binning = lks.binning
                  => /\ "BinningHorizontal" \notin W
                     /\ "BinningVertical" \notin W
                     /\ lks'.binning = lks.binning
            /\ P.pixel_type = lks.pixel_type
                  => /\ "PixelFormat" \notin W
                     /\ lks'.pixel_type = lks.pixel_type
            /\ P.offset.x = lks.offset.x
                  => "OffsetX" \notin W /\ lks'.offset.x = lks.offset.x
            /\ P.offset.y = lks.offset.y
                  => "OffsetY" \notin W /\ lks'.offset.y = lks.offset.y
            /\ P.shape.x = lks.shape.x
                  => "Width" \notin W /\ lks'.shape.x = lks.shape.x
            /\ P.shape.y = lks.shape.y
                  => "Height" \notin W /\ lks'.shape.y = lks.shape.y
            /\ is_equal(P.input_triggers.frame_start,
                        lks.input_triggers.frame_start)
                  => /\ W \cap TriggerFeatures = {}
                     /\ lks'.input_triggers.frame_start
                          = lks.input_triggers.frame_start
    ]_vars

\* C1 witness: set has returned Device_Ok after writing the binning, the
\* requested exposure differing from the cached one by exactly Epsilon:
\* no ExposureTime write was issued and the cache kept its value.
C1_Witness ==
    /\ pc["ctl"] = "returned" /\ ret["ctl"].op = "set"
    /\ ret["ctl"].status = Device_Ok
    /\ Abs(ret["ctl"].arg.exposure_time_us - lks.exposure_time_us) = Epsilon
    /\ "ExposureTime" \notin Written(ret["ctl"].log)
    /\ "BinningHorizontal" \in Written(ret["ctl"].log)

\* The cached value that belongs to a numeric register
CachedOf(l, f) == FieldOf(l, f)

\* C2, as claimed: every value set has written to a numeric register lies
\* in the cached range of its property, and when the requested value lies
\* outside that range the value written and the value cached after the
\* call are both the clamped request.
C2_ClampedWrittenAndCached ==
    (pc["ctl"] = "returned" /\ ret["ctl"].op = "set") =>
        \A i \in 1 .. Len(ret["ctl"].log) :
            LET w == ret["ctl"].log[i]
            IN  (w.ok /\ w.f \in NumericFeatures) =>
                  LET tgt == FieldOf(ret["ctl"].arg, w.f)
                      r == RangeOf(lkc, w.f)
                  IN  /\ InRange(w.v, r)
                      /\ ~InRange(tgt, r) =>
                            /\ w.v = clamp(tgt, r.low, r.high)
                            /\ CachedOf(lks, w.f) = clamp(tgt, r.low, r.high)

\* The trigger record is invalid for maybe_set_trigger
InvalidTrigger(tr) ==
    tr.line \notin {0, 1} \/ tr.edge \notin {0, 1} \/ tr.enable \notin {0, 1}

\* C3: set with a trigger record that differs from the cached one and is
\* invalid returns Device_Err, issues no TriggerSource, TriggerMode or
\* TriggerActivation write, leaves the cached record as it was, and leaves
\* the device such that get reports the trigger it reported before.
C3_InvalidTriggerRejected ==
    [][(/\ SetStep("ctl")
        /\ ~is_equal(call["ctl"].arg.input_triggers.frame_start,
                     lks.input_triggers.frame_start)
        /\ InvalidTrigger(call["ctl"].arg.input_triggers.frame_start))
       => /\ ret'["ctl"].status = Device_Err
          /\ Written(ret'["ctl"].log) \cap TriggerFeatures = {}
          /\ lks'.input_triggers.frame_start = lks.input_triggers.frame_start
          /\ GetProps(dev').input_triggers.frame_start
               = GetProps(dev).input_triggers.frame_start
    ]_vars

\* C3 witness: set was called with line 2 while the device is triggered
\* from Software with the trigger enabled; it has returned Device_Err on
\* the validation, and the trigger registers still hold that state.
C3_Witness ==
    /\ pc["ctl"] = "returned" /\ ret["ctl"].op = "set"
    /\ ret["ctl"].arg.input_triggers.frame_start.line = 2
    /\ ret["ctl"].status = Device_Err /\ ret["ctl"].err = "validation"
    /\ dev.TriggerSource = "Software" /\ dev.TriggerMode = "On"

\* What get must return for field by field after set(P): the clamped value
\* of a numeric field (the value the device holds when the property is not
\* writable), the pixel type, and the trigger's enable, line and edge.
RoundTrips(P, G, m, before) ==
    /\ Abs(G.exposure_time_us
           - clamp(P.exposure_time_us, m.exposure_time_us.low,
                   m.exposure_time_us.high)) <= Epsilon
    /\ G.binning = IF m.binning.writable
                   THEN clamp(P.binning, m.binning.low, m.binning.high)
                   ELSE before.binning
    /\ G.pixel_type = P.pixel_type
    /\ G.offset.x = clamp(P.offset.x, m.offset.x.low, m.offset.x.high)
    /\ G.offset.y = clamp(P.offset.y, m.offset.y.low, m.offset.y.high)
    /\ G.shape.x = clamp(P.shape.x, m.shape.x.low, m.shape.x.high)
    /\ G.shape.y = clamp(P.shape.y, m.shape.y.low, m.shape.y.high)
    /\ G.input_triggers.frame_start.enable
         = P.input_triggers.frame_start.enable
    /\ G.input_triggers.frame_start.line = P.input_triggers.frame_start.line
    /\ G.input_triggers.frame_start.edge = P.input_triggers.frame_start.edge

\* C4, as claimed: when set(P) returns Device_Ok, the record get builds
\* from the device is, field by field, the clamped or validated P.
C4_SetGetRoundTrip ==
    [][(SetStep("ctl") /\ ret'["ctl"].status = Device_Ok)
       => RoundTrips(call["ctl"].arg, GetProps(dev'), lkc, GetProps(dev))
    ]_vars

----------------------------------------------------------------------------
(* Properties of get_frame, start and stop *)

\* The step in which thread t's get_frame runs from the buffer's getInfo
\* calls to the read of frame_id_, or to the failed check
CopyStep(t) == pc[t] = "holding" /\ pc'[t] # "holding"

\* The step in which thread t's get_frame stores frame_id_ and returns
StoreStep(t) == pc[t] = "storing" /\ pc'[t] = "returned"

\* The step in which thread t runs EGCamera::start
StartStep(t) ==
    /\ pc[t] = "locked" /\ call[t].op = "start" /\ call[t].phase = "start"
    /\ pc'[t] # "locked"

\* The step in which thread t runs the body of eecam_stop
StopStep(t) ==
    /\ pc[t] = "locked" /\ call[t].op = "stop"
    /\ pc'[t] = "returned"

\* C5: get_frame called with a capacity below the byte size of the frame
\* it is handed returns Device_Err, copies nothing into the caller's
\* buffer, writes no ImageInfo, and leaves frame_id_ as it was.
C5_CapacityGuard ==
    [][(/\ CopyStep("consumer")
        /\ call["consumer"].nbytes < call["consumer"].frame.size)
       => /\ pc'["consumer"] = "returned"
          /\ ret'["consumer"].status = Device_Err
          /\ ~ret'["consumer"].copied
          /\ ~ret'["consumer"].info.written
          /\ frame_id_' = frame_id_
    ]_vars

\* C5 witness: a get_frame with 3 bytes of capacity has been handed a
\* 4-byte frame and has returned on the capacity check.
C5_Witness ==
    /\ pc["consumer"] = "returned" /\ ret["consumer"].op = "get_frame"
    /\ ret["consumer"].err = "capacity"
    /\ ret["consumer"].nbytes = 3 /\ ret["consumer"].frame.size = 4

\* C6, as claimed: a successful get_frame returns the counter's value and
\* leaves it one higher, start sets it to 0, and no other step (a failed
\* get_frame, set, get, get_meta, get_shape, execute_trigger, stop)
\* changes it: the ids returned after a start are 0, 1, 2, ...
C6_FrameIdSequence ==
    [][/\ StoreStep("consumer")
            => /\ ret'["consumer"].status = Device_Ok
               /\ ret'["consumer"].info.hardware_frame_id = frame_id_
               /\ frame_id_' = frame_id_ + 1
       /\ StartStep("ctl") => frame_id_' = 0
       /\ ~(StoreStep("consumer") \/ StartStep("ctl"))
            => frame_id_' = frame_id_
    ]_vars

\* The ImageInfo is the one get_frame builds for frame f
WellFormed(info, f) ==
    /\ info.written
    /\ info.shape.dims = [channels |-> 1, width |-> f.width,
                          height |-> f.height, planes |-> 1]
    /\ info.shape.strides = [channels |-> 1, width |-> 1,
                             height |-> f.width,
                             planes |-> f.width * f.height]
    /\ info.shape.type = at_or(px_type_table_, f.pixelFormat, "Unknown")
    /\ info.shape.type # "Unknown"
    /\ info.hardware_timestamp = f.seq

\* C7: a get_frame that retries a call refused on the capacity check, with
\* a buffer of at least the frame size, passes the capacity check on the
\* frame it is handed; when that frame has data (a non-null base) the
\* retry returns Device_Ok, the bytes copied and a well-formed ImageInfo.
C7_RetryAfterCapacityFailure ==
    [][/\ (/\ CopyStep("consumer") /\ call["consumer"].retry
           /\ call["consumer"].frame.base)
            => pc'["consumer"] = "storing"
       /\ (StoreStep("consumer") /\ call["consumer"].retry)
            => /\ ret'["consumer"].status = Device_Ok
               /\ ret'["consumer"].copied
               /\ WellFormed(ret'["consumer"].info, call["consumer"].frame)
    ]_vars

\* C7 witness: the retry of a refused get_frame has returned Device_Ok
\* with a buffer of exactly the frame size.
C7_Witness ==
    /\ pc["consumer"] = "returned" /\ ret["consumer"].op = "get_frame"
    /\ ret["consumer"].retry
    /\ ret["consumer"].status = Device_Ok
    /\ ret["consumer"].nbytes = ret["consumer"].frame.size

\* C8: whatever a camera or driver entry point has met (a failed
\* validation, a throwing SDK call), what its caller gets is Device_Ok or
\* Device_Err, and Device_Ok exactly when the wrapped method returned
\* instead of throwing.
C8_UniformStatus ==
    \A t \in Threads :
        pc[t] = "returned" =>
            /\ ret[t].op \in {"set", "get", "get_meta", "get_shape", "start",
                              "stop", "execute_trigger", "get_frame",
                              "describe", "open", "close", "shutdown"}
            /\ ret[t].status \in {Device_Ok, Device_Err}
            /\ ret[t].status = Device_Ok <=> ret[t].err = "none"

\* C8 witness: open has returned Device_Err after an SDK call of the
\* EGCamera constructor threw.
C8_Witness ==
    /\ pc["ctl"] = "returned" /\ ret["ctl"].op = "open"
    /\ ret["ctl"].status = Device_Err /\ ret["ctl"].err = "sdk"
    /\ ~driver.opened

\* C9, as claimed: when stop() runs while a get_frame is blocked waiting
\* for a frame, stop() returns and the wait has been ended: the blocked
\* get_frame is on its way out with Device_Err.
C9_StopUnblocksGetFrame ==
    [][(StopStep("ctl") /\ Blocked("consumer"))
       => pc'["consumer"] = "aborted"
    ]_vars

\* C10: a thread that holds lock_ is inside a lock-guarded body, never in
\* get_frame: a get_frame that waits for a frame holds no lock, so the
\* holder always runs to its release and the next caller acquires lock_.
C10_GetFrameHoldsNoLock ==
    \A t \in Threads :
        /\ lock_ = t => pc[t] = "locked"
        /\ pc[t] \in {"waiting", "holding", "storing", "aborted"}
              => lock_ # t

\* C10 witness: stop holds lock_ while the consumer's get_frame is blocked.
C10_Witness ==
    /\ Blocked("consumer")
    /\ lock_ = "ctl" /\ call["ctl"].op = "stop"

----------------------------------------------------------------------------
(* Properties of lock_, of eecam_start's retry, of the frame handle, and   *)
(* of set's writes                                                         *)

\* Thread t is executing the body of a lock-guarded method
InBody(t) == pc[t] = "locked" /\ call[t].op \in LockGuarded

\* C11: at most one thread at a time is inside the body of set, get,
\* get_meta, get_shape, start, stop or execute_trigger, and that thread is
\* the holder of lock_; the bodies therefore run one after the other.
C11_MutualExclusion ==
    \A t \in Threads :
        InBody(t) =>
            /\ lock_ = t
            /\ \A u \in Threads \ {t} : ~InBody(u)

\* C11 witness: set is inside its body on one thread while the other
\* thread, between the two attempts of eecam_start, is waiting for lock_.
C11_Witness ==
    /\ InBody("ctl") /\ call["ctl"].op = "set"
    /\ pc["aux"] = "relock"
    /\ lock_ = "ctl"

\* The step in which thread t runs the eecam_stop that follows a failed
\* attempt of eecam_start
StartStopStep(t) ==
    /\ pc[t] = "locked" /\ call[t].op = "start" /\ call[t].phase = "stop"
    /\ pc'[t] # "locked"

\* C12: eecam_start runs EGCamera::start at most twice.  An attempt that
\* returns ends the call with Device_Ok at once, no stop after it; a
\* failed attempt is followed by the internal stop; after the first
\* failure the stop is followed by the second attempt, and Device_Err is
\* returned only when the second attempt has failed too.
C12_StartRetriesOnce ==
    [][/\ StartStep("ctl") =>
            /\ call["ctl"].attempts \in {0, 1}
            /\ \/ /\ pc'["ctl"] = "returned"
                  /\ ret'["ctl"].status = Device_Ok
                  /\ ret'["ctl"].attempts = call["ctl"].attempts + 1
                  /\ dev' = dev
               \/ /\ pc'["ctl"] = "relock"
                  /\ call'["ctl"].phase = "stop"
                  /\ call'["ctl"].attempts = call["ctl"].attempts
       /\ StartStopStep("ctl") =>
            IF call["ctl"].attempts = 0
            THEN /\ pc'["ctl"] = "relock"
                 /\ call'["ctl"].phase = "start"
                 /\ call'["ctl"].attempts = 1
            ELSE /\ pc'["ctl"] = "returned"
                 /\ ret'["ctl"].status = Device_Err
                 /\ ret'["ctl"].attempts = 2
    ]_vars

\* C12 witness: eecam_start has returned Device_Ok from its second attempt.
C12_Witness ==
    /\ pc["ctl"] = "returned" /\ ret["ctl"].op = "start"
    /\ ret["ctl"].status = Device_Ok /\ ret["ctl"].attempts = 2
    /\ grab.running

\* Thread t is inside get_frame between the pop of a buffer and its return
Holding(t) == pc[t] \in {"holding", "storing"}

\* C13: the buffers popped and not pushed back are exactly those of the
\* get_frame calls now between their pop and their return.  Once a
\* get_frame has returned, with Device_Ok or on the capacity check, the
\* null base, a failed getInfo or the cancelled wait, none is held.
C13_HandleReleased ==
    grab.held = Cardinality({t \in Threads : Holding(t)})

\* C13 witness: get_frame has returned on the null base pointer of the
\* buffer it had popped.
C13_Witness ==
    /\ pc["consumer"] = "returned" /\ ret["consumer"].op = "get_frame"
    /\ ret["consumer"].err = "null"
    /\ grab.held = 0

\* The trigger registers of the device
TriggerOf(d) == <<d.TriggerSource, d.TriggerMode, d.TriggerActivation>>

\* The register values a valid trigger record asks for
RequestedTrigger(tr) ==
    <<TriggerSources[tr.line + 1], TriggerModes[tr.enable + 1],
      TriggerActivations[tr.edge + 1]>>

\* C14, as claimed: after a set call, returned with Device_Ok or with
\* Device_Err, the device's TriggerSource, TriggerMode and
\* TriggerActivation are the three values they had before the call or the
\* three values the call's trigger record asks for.
C14_TriggerAllOrNothing ==
    [][SetStep("ctl") =>
        LET tr == call["ctl"].arg.input_triggers.frame_start
        IN  \/ TriggerOf(dev') = TriggerOf(dev)
            \/ /\ ~InvalidTrigger(tr)
               /\ TriggerOf(dev') = RequestedTrigger(tr)
    ]_vars

\* The calls of a log that name one of the given features, in log order
Only(log, fs) == SelectSeq(log, LAMBDA w : w.f \in fs)

\* C15: the trigger writes of a set call are issued in the order
\* TriggerSource, TriggerMode, TriggerActivation: a TriggerMode write
\* comes right after the TriggerSource write that returned with the
\* requested line, a TriggerActivation write right after the TriggerMode
\* write, and a set that returns Device_Ok for a changed record has
\* issued exactly these three.
C15_TriggerWriteOrder ==
    [][SetStep("ctl") =>
        LET tr == call["ctl"].arg.input_triggers.frame_start
            T  == Only(ret'["ctl"].log, TriggerFeatures)
        IN  /\ \A i \in 1 .. Len(T) :
                 /\ T[i].f = "TriggerSource" => i = 1
                 /\ T[i].f = "TriggerMode" =>
                       /\ i = 2 /\ T[1].f = "TriggerSource" /\ T[1].ok
                       /\ T[1].v = TriggerSources[tr.line + 1]
                       /\ T[i].v = TriggerModes[tr.enable + 1]
                 /\ T[i].f = "TriggerActivation" =>
                       /\ i = 3 /\ T[2].f = "TriggerMode" /\ T[2].ok
            /\ (/\ ret'["ctl"].status = Device_Ok
                /\ ~is_equal(tr, lks.input_triggers.frame_start))
                  => /\ Len(T) = 3
                     /\ T[3].f = "TriggerActivation"
                     /\ TriggerOf(dev') = RequestedTrigger(tr)
    ]_vars

\* C15 witness: set has returned Device_Ok after moving the trigger from
\* Line0 to Software and enabling it.
C15_Witness ==
    /\ pc["ctl"] = "returned" /\ ret["ctl"].op = "set"
    /\ ret["ctl"].status = Device_Ok
    /\ Len(Only(ret["ctl"].log, TriggerFeatures)) = 3
    /\ Only(ret["ctl"].log, TriggerFeatures)[1].v = "Software"
    /\ Only(ret["ctl"].log, TriggerFeatures)[2].v = "On"

\* C16, as claimed: when set fails on a hardware write, each numeric
\* register written before the failure still holds the value written (it
\* is written once, nothing rolls it back), and the cached value of its
\* property component equals that value.
C16_PartialFailureCached ==
    [][(SetStep("ctl") /\ ret'["ctl"].err = "sdk") =>
        LET L == ret'["ctl"].log
        IN  \A i \in 1 .. Len(L) :
              (L[i].ok /\ L[i].f \in NumericFeatures) =>
                  /\ \A j \in 1 .. Len(L) : L[j].f = L[i].f => j = i
                  /\ dev'[L[i].f] = L[i].v
                  /\ CachedOf(lks', L[i].f) = L[i].v
    ]_vars

\* C17, as claimed: every set call ends with the reallocation of the
\* buffer pool to NBUFFERS buffers: reallocBuffers(NBUFFERS) is the last
\* SDK call it issues, whether or not a field changed.
C17_ReallocAlways ==
    [][SetStep("ctl") =>
        LET L == ret'["ctl"].log
        IN  /\ Len(L) > 0
            /\ L[Len(L)].f = "reallocBuffers"
            /\ L[Len(L)].v = NBUFFERS
    ]_vars

\* The place of each SDK call in the order EGCamera::set issues them
WriteRank(f) ==
    CASE f = "ExposureTime" -> 1
      [] f = "BinningHorizontal" -> 2
      [] f = "BinningVertical" -> 3
      [] f = "PixelFormat" -> 4
      [] f = "OffsetX" -> 5
      [] f = "OffsetY" -> 6
      [] f = "Width" -> 7
      [] f = "Height" -> 8
      [] f = "TriggerSource" -> 9
      [] f = "TriggerMode" -> 10
      [] f = "TriggerActivation" -> 11
      [] f = "reallocBuffers" -> 12
      [] OTHER -> 0

\* C18: the SDK calls of one set call are issued in the order exposure,
\* binning, pixel type, offset, shape, trigger, and the reallocation of the
\* buffers comes after all of them: every offset write precedes every shape
\* write, every trigger write follows every shape write.
C18_WriteOrder ==
    [][SetStep("ctl") =>
        LET L == ret'["ctl"].log
        IN  /\ \A i \in 1 .. Len(L) : WriteRank(L[i].f) > 0
            /\ \A i \in 1 .. Len(L), j \in 1 .. Len(L) :
                  i < j => WriteRank(L[i].f) < WriteRank(L[j].f)
    ]_vars

\* A set call has written the exposure, the binning, the pixel type, the
\* offset, the shape and the trigger, and then reallocated the buffers.
C18_Witness ==
    /\ ret["ctl"].op = "set" /\ ret["ctl"].status = Device_Ok
    /\ LET L == ret["ctl"].log
       IN  /\ Len(L) = 12
           /\ L[1].f = "ExposureTime" /\ L[5].f = "OffsetX"
           /\ L[7].f = "Width" /\ L[9].f = "TriggerSource"
           /\ L[12].f = "reallocBuffers"

\* The set call in progress repeats the successful set call before it
Repeated(t) == "again" \in DOMAIN call[t]

\* C19: a set call that repeats a successful set call with the same record,
\* nothing in between, leaves the device registers, the cached properties
\* and the frame-id counter as the first call left them, whether the second
\* call succeeds or fails.
C19_SetIdempotent ==
    [][(SetStep("ctl") /\ Repeated("ctl")) =>
        /\ dev' = dev
        /\ lks' = lks
        /\ frame_id_' = frame_id_
    ]_vars

\* A repeated set call has returned Device_Ok after writing a clamped value
\* to a numeric register a second time.
C19_Witness ==
    /\ ret["ctl"].op = "set" /\ ret["ctl"].again
    /\ ret["ctl"].status = Device_Ok
    /\ \E i \in 1 .. Len(ret["ctl"].log) :
          ret["ctl"].log[i].f \in NumericFeatures /\ ret["ctl"].log[i].ok

\* eecam_close has run on a camera handle that is not null
CloseStep(t) ==
    /\ pc[t] = "locked" /\ call[t].op = "close" /\ ~call[t].arg.in_null
    /\ pc'[t] = "returned"

\* C20: closing a camera never reports a failure of the teardown: whichever
\* of the destructor's steps (stop, AcquisitionStop, TriggerMode Off) throws,
\* close of a non-null handle returns Device_Ok and the camera is gone.
C20_CloseNeverFails ==
    [][CloseStep("ctl") =>
        /\ ret'["ctl"].status = Device_Ok
        /\ ~driver'.opened
    ]_vars

\* close has returned Device_Ok although a teardown step threw.
C20_Witness ==
    /\ ret["ctl"].op = "close" /\ ret["ctl"].status = Device_Ok
    /\ ~driver.opened
    /\ \E i \in 1 .. Len(ret["ctl"].log) : ~ret["ctl"].log[i].ok

\* C21, as claimed: every destruction issues the AcquisitionStop command
\* and then the TriggerMode = Off write of the destructor, also when a step
\* of stop() threw before them.
C21_DestructionDisablesTrigger ==
    [][CloseStep("ctl") =>
        LET L == ret'["ctl"].log
        IN  \E i \in 1 .. Len(L), j \in 1 .. Len(L) :
              /\ i < j
              /\ L[i].f = "AcquisitionStop"
              /\ L[j].f = "TriggerMode" /\ L[j].v = "Off"
    ]_vars

\* C22, as claimed: after every set the cached capabilities equal the
\* record get_meta builds from the device, whose ranges the set may have
\* changed.
C22_CapabilitiesRefreshed ==
    [][SetStep("ctl") => lkc' = MetaOf(dev')]_vars

\* eecam_open or eecam_get_meta has run
OpenStep(t) ==
    /\ pc[t] = "locked" /\ call[t].op = "open"
    /\ pc'[t] = "returned"

GetMetaStep(t) ==
    /\ pc[t] = "locked" /\ call[t].op = "get_meta"
    /\ pc'[t] = "returned"

\* C23: on a device whose exposure-time unit is not "us", get_meta returns
\* Device_Err, and so does open, whose constructor calls get_meta: no
\* camera instance exists afterwards and the caches are untouched.
C23_UnitMustBeMicroseconds ==
    [][/\ (OpenStep("ctl") /\ dev.ExposureTimeUnit # "us") =>
            /\ ret'["ctl"].status = Device_Err
            /\ ~driver'.opened
            /\ lks' = lks /\ lkc' = lkc
       /\ (GetMetaStep("ctl") /\ dev.ExposureTimeUnit # "us") =>
            ret'["ctl"].status = Device_Err
    ]_vars

\* open of a valid camera index, with no SDK call failing, has returned
\* Device_Err from the unit check of the constructor's get_meta.
C23_Witness ==
    /\ ret["ctl"].op = "open" /\ ret["ctl"].status = Device_Err
    /\ ret["ctl"].err = "validation" /\ ret["ctl"].fault = 0
    /\ ~ret["ctl"].arg.out_null
    /\ \E i \in 1 .. Len(ret["ctl"].log) : ret["ctl"].log[i].f = "TriggerMode"
    /\ dev.ExposureTimeUnit = "ns"
    /\ ~driver.opened

\* The sample types the adapter has a pixel-format name for
ModelledTypes == {px_type_table_[n] : n \in DOMAIN px_type_table_}

\* C24, as claimed: the supported_pixel_types bitmask of a successful
\* get_meta has a bit exactly for the modelled sample types whose names the
\* device lists; other names contribute no bit; and no list makes get_meta
\* fail.
C24_PixelTypeBitmask ==
    [][GetMetaStep("ctl") =>
        /\ ret'["ctl"].fault = 0 => ret'["ctl"].status = Device_Ok
        /\ ret'["ctl"].status = Device_Ok =>
              ret'["ctl"].out.supported_pixel_types =
                  {SampleTypeIndex(t) :
                      t \in {u \in ModelledTypes :
                                px_type_inv_table_[u] \in dev.PixelFormats}}
    ]_vars

\* The frame thread t's get_frame holds was delivered with fewer lines than
\* its nominal height
ShortFrame(t) == call[t].frame.deliveredHeight # call[t].frame.height

\* C25: a delivered height that differs from the nominal height does not
\* fail get_frame.  With a buffer large enough and a non-null base the call
\* goes on to copy the frame, returns Device_Ok, fills ImageInfo with the
\* nominal height, leaves the frame-id counter one above the id it stamped
\* on the frame, and has logged the mismatch.
C25_HeightMismatchNotFatal ==
    [][/\ (/\ CopyStep("consumer") /\ ShortFrame("consumer")
           /\ capacity_ok(call["consumer"].nbytes,
                          call["consumer"].frame.size)
           /\ call["consumer"].frame.base)
          => pc'["consumer"] = "storing"
       /\ (StoreStep("consumer") /\ ShortFrame("consumer")) =>
            LET r == ret'["consumer"]
            IN  /\ r.status = Device_Ok /\ r.copied
                /\ r.info.written
                /\ r.info.shape.dims.height = call["consumer"].frame.height
                /\ r.info.shape.dims.width = call["consumer"].frame.width
                /\ frame_id_' = r.info.hardware_frame_id + 1
                /\ r.diag
    ]_vars

\* A get_frame has returned Device_Ok for a frame delivered short, with the
\* mismatch logged.
C25_Witness ==
    /\ ret["consumer"].op = "get_frame"
    /\ ret["consumer"].status = Device_Ok
    /\ ret["consumer"].frame.deliveredHeight # ret["consumer"].frame.height
    /\ ret["consumer"].diag

\* C26, as claimed: once a set with an in-range shape S has returned
\* Device_Ok and start has succeeded after it, every frame a successful
\* get_frame returns before the next set has width S.x and height S.y.
C26_FramesHaveConfiguredShape ==
    [][(StoreStep("ctl") /\ configured.set /\ configured.started) =>
        /\ ret'["ctl"].info.shape.dims.width = configured.shape.x
        /\ ret'["ctl"].info.shape.dims.height = configured.shape.y
    ]_vars

\* C27: a set whose pixel_type is none of u8, u10, u12, u14, u16 returns
\* Device_Err, issues no PixelFormat write, and leaves the device's pixel
\* format and the cached pixel_type as they were.
C27_UnknownPixelTypeRejected ==
    [][(SetStep("ctl") /\ call["ctl"].arg.pixel_type \notin ModelledTypes) =>
        /\ ret'["ctl"].status = Device_Err
        /\ \A i \in 1 .. Len(ret'["ctl"].log) :
              ret'["ctl"].log[i].f # "PixelFormat"
        /\ dev'.PixelFormat = dev.PixelFormat
        /\ lks'.pixel_type = lks.pixel_type
    ]_vars

\* A set asking for i8, a sample type below SampleTypeCount without a
\* format name, was rejected on the table lookup after the binning had been
\* written.
C27_Witness ==
    /\ ret["ctl"].op = "set" /\ ret["ctl"].status = Device_Err
    /\ ret["ctl"].err = "validation" /\ ret["ctl"].fault = 0
    /\ ret["ctl"].arg.pixel_type = "i8"
    /\ \E i \in 1 .. Len(ret["ctl"].log) :
          ret["ctl"].log[i].f = "BinningHorizontal"

\* The step is a call made with a null device handle or a null output
\* pointer: a camera entry point with self_, settings, meta, shape or info
\* null, open with out null, close with a null device
NullCallStep(t) ==
    \/ /\ pc[t] = "idle" /\ pc'[t] # "idle"
       /\ "null" \in DOMAIN ret'[t]
    \/ OpenStep(t) /\ call[t].arg.out_null
    \/ /\ pc[t] = "locked" /\ call[t].op = "close" /\ call[t].arg.in_null
       /\ pc'[t] = "returned"

\* C28, as claimed: a call with a null device handle or a null output
\* pointer returns Device_Err as a validation failure; it has not queried
\* or written the device and the adapter's state is as before.
C28_NullPointersRejected ==
    [][NullCallStep("ctl") =>
        /\ pc'["ctl"] = "returned"
        /\ ret'["ctl"].status = Device_Err
        /\ ret'["ctl"].err = "validation"
        /\ ret'["ctl"].log = <<>>
        /\ ("reads" \in DOMAIN ret'["ctl"]) => ~ret'["ctl"].reads
        /\ UNCHANGED <<dev, lks, lkc, frame_id_, grab, driver>>
    ]_vars

\* Thread t's set or start has gone through its reallocBuffers call
Reallocated(t) ==
    \/ SetStep(t) /\ ret'[t].status = Device_Ok
    \/ StartStep(t) /\ pc'[t] = "returned"

\* C29: nothing keeps set or start from reallocating the buffer pool while
\* a get_frame of another thread waits for a frame or holds one.  The
\* reallocation goes through, the get_frame stays where it is, and the
\* handle it holds now names a buffer of the pool that was revoked.
C29_ReallocDuringGetFrame ==
    [][/\ (Reallocated("ctl") /\ Holding("consumer")) =>
            /\ pc'["consumer"] = pc["consumer"]
            /\ call'["consumer"] = call["consumer"]
            /\ grab'.held = grab.held
            /\ grab'.stale = grab.held
       /\ (Reallocated("ctl") /\ pc["consumer"] = "waiting") =>
            pc'["consumer"] = "waiting"
    ]_vars

\* A get_frame holds a handle into a pool that a set or start of the
\* control thread has reallocated since the pop.
C29_Witness ==
    /\ Holding("consumer")
    /\ grab.held > 0 /\ grab.stale = grab.held
    /\ pc["ctl"] = "returned" /\ ret["ctl"].op \in {"set", "start"}
    /\ ret["ctl"].status = Device_Ok

\* The step in which thread t's set, get, start or stop returns
CompletedStep(t) ==
    /\ pc[t] # "returned" /\ pc'[t] = "returned"
    /\ call[t].op \in {"set", "get", "start", "stop"}

\* The cached frame_start record says what the device's trigger registers
\* say
TriggerCacheAgrees(d, l) ==
    LET tr == l.input_triggers.frame_start
    IN  /\ tr.enable = ModeInteger(d.TriggerMode)
        /\ tr.line = at_or(trig_src_table_, d.TriggerSource, Trig_Unknown)
        /\ tr.edge = at_or(trig_edge_table_, d.TriggerActivation,
                           TriggerEdge_Unknown)

\* C30: whenever a set, get, start or stop has completed, with success or
\* with an error, on a device whose trigger source is Line0 or Software,
\* the cached frame_start record agrees with the device in enable, line
\* and edge.
C30_TriggerCacheCoherent ==
    [][(CompletedStep("ctl") /\ dev'.TriggerSource \in DOMAIN trig_src_table_)
          => TriggerCacheAgrees(dev', lks')]_vars

\* The cached scalar settings say what the device's registers say
ScalarCacheAgrees(d, l) ==
    LET now == GetProps(d)
    IN  /\ l.exposure_time_us = now.exposure_time_us
        /\ l.binning = now.binning
        /\ l.pixel_type = now.pixel_type
        /\ l.offset = now.offset
        /\ l.shape = now.shape

\* C31: after every successful set, each cached scalar setting (exposure
\* time, binning, pixel type, offset, shape) equals the value the device
\* holds for it, also when binning is reported as not writable.
C31_ScalarCacheCoherent ==
    [][(SetStep("ctl") /\ ret'["ctl"].status = Device_Ok)
          => ScalarCacheAgrees(dev', lks')]_vars

\* The step in which thread t runs the body of a set that was handed the
\* record of the get before it
SetBackStep(t) == SetStep(t) /\ "echo" \in DOMAIN call[t]

\* C32: whatever state the device is in, a set that is passed the record
\* the preceding get returned, unchanged, returns Device_Ok and writes no
\* setting: reallocBuffers is its only SDK call.  This includes devices
\* whose pixel format, trigger source or trigger activation the adapter
\* reads as Unknown or as the default.
C32_GetThenSetWritesNothing ==
    [][SetBackStep("ctl") =>
          \/ ret'["ctl"].fault # 0
          \/ /\ ret'["ctl"].status = Device_Ok
             /\ \A i \in DOMAIN ret'["ctl"].log :
                   ret'["ctl"].log[i].f = "reallocBuffers"
             /\ dev' = dev
    ]_vars

\* The step in which thread t's get_frame fails its capacity check or its
\* null-base check
RefuseStep(t) ==
    /\ CopyStep(t) /\ pc'[t] = "returned"
    /\ ret'[t].err \in {"capacity", "null"}

\* Every frame waiting in the pool was delivered after frame number seq
AllLater(g, seq) ==
    /\ \A i \in DOMAIN g.queue : g.queue[i].seq > seq
    /\ g.delivered > seq

\* C33: a get_frame that fails the capacity check or the null-base check
\* has taken a delivered frame from the pool and gives the buffer back on
\* return: nothing of the frame reaches the caller, the frame is not in the
\* pool any more, and frame_id_ is not advanced.  The get_frame that
\* follows is handed a later frame, and when it succeeds it stamps the id
\* the refused call left unused.
C33_RefusedFrameIsDropped ==
    [][/\ RefuseStep("ctl") =>
            /\ grab'.held = grab.held - 1
            /\ ret'["ctl"].frame = call["ctl"].frame
            /\ ~ret'["ctl"].copied /\ ret'["ctl"].info = Unwritten
            /\ ret'["ctl"].status = Device_Err
            /\ frame_id_' = frame_id_
            /\ AllLater(grab', call["ctl"].frame.seq)
       /\ (CopyStep("ctl") /\ call["ctl"].last >= 0) =>
            call["ctl"].frame.seq > call["ctl"].last
       /\ (StoreStep("ctl") /\ call["ctl"].last >= 0) =>
            /\ ret'["ctl"].status = Device_Ok
            /\ ret'["ctl"].frame.seq > call["ctl"].last
            /\ ret'["ctl"].info.hardware_frame_id = frame_id_
            /\ frame_id_' = frame_id_ + 1
    ]_vars

\* A get_frame was refused on frame 0 and the one that followed has
\* returned Device_Ok with a later frame.
C33_Witness ==
    /\ pc["ctl"] = "returned" /\ ret["ctl"].op = "get_frame"
    /\ ret["ctl"].last >= 0
    /\ ret["ctl"].status = Device_Ok
    /\ ret["ctl"].frame.seq > ret["ctl"].last

\* C34: a thread holds lock_ only while it is inside the body of a
\* lock-guarded method: every way out of such a body, a failed device call
\* or validation check included, gives lock_ back.  So when eecam_start is
\* about to run its internal stop after a failed attempt, and when close
\* is about to run the destructor's stop, the calling thread does not hold
\* lock_ and the stop cannot wait for its own caller.  (A thread stopped by
\* a memory fault inside a body has not left it.)
C34_LockReleasedOnEveryExit ==
    \A t \in Threads :
        lock_ = t => (InBody(t) \/ pc[t] = "crashed")

\* The internal stop of eecam_start has taken lock_ after a failed attempt.
C34_Witness ==
    /\ pc["ctl"] = "locked" /\ call["ctl"].op = "start"
    /\ call["ctl"].phase = "stop"
    /\ lock_ = "ctl"

\* The step in which thread t's eecam_start returns
StartReturns(t) ==
    /\ pc[t] = "locked" /\ call[t].op = "start"
    /\ pc'[t] = "returned"

\* C35: whenever eecam_start returns Device_Ok, the device's TriggerMode
\* is the one the last successful set left it with, also when the first
\* attempt failed and the second one, after the internal stop, succeeded.
C35_StartKeepsTriggerMode ==
    [][(/\ StartReturns("ctl") /\ ret'["ctl"].status = Device_Ok
        /\ configured.set)
          => dev'.TriggerMode = configured.mode]_vars

====
